---------------------------- MODULE Spec2Model ----------------------------
(***************************************************************************)
(* BarcodeForge: the barcode construction pipeline of generate_barcodes.py *)
(* (parse_tree_paths, convert_to_barcodes, reversion_checking,             *)
(* identify_chains, check_mutation_chain, check_no_flip_pairs,             *)
(* create_barcodes_from_lineage_paths) and process_and_reroot_lineages of  *)
(* ref_muts.py (direct mode, inference mode, rewriting of lineage paths).   *)
(*                                                                         *)
(* A Python string is a sequence of one-character strings, so that the     *)
(* slicing the code does (d[-1], d[1:len(d)-1], split, strip) is computed  *)
(* and never assumed.  A DataFrame is a record of its index (row labels,   *)
(* in order), its columns (names, in order) and its cells.                 *)
(***************************************************************************)
EXTENDS Integers, Sequences, FiniteSets, TLC

VARIABLES
    pc,           \* position in create_barcodes_from_lineage_paths
    prefix,       \* the prefix argument
    rows,         \* the lineage path table read from input_file_path
    df,           \* the table returned by parse_tree_paths
    df_barcodes,  \* the barcode matrix being built
    before,       \* history: df_barcodes before the statement that ran last
    seq_muts,     \* check_mutation_chain: the chains of the current pass
    k,            \* check_mutation_chain: chains of seq_muts already combined
    file,         \* the barcode file at output_file_path
    outcome,      \* how the call ended: "running", "returned", "raised"
    flip_error,   \* whether check_no_flip_pairs raised 'flip pairs found'
    sample_muts_df, \* ref_muts: the sample mutation table
    muts,           \* ref_muts: the OrderedDict of _extract_mutations
    additional_muts, \* ref_muts: the additional mutations
    seqs,           \* ref_muts: the sequence records by sample id
    ref_seq,        \* ref_muts: the sequence of the reference record
    it,             \* ref_muts: rows of 'valid' the inference loop has passed
    root_seqs,      \* ref_muts: the records appended to root_seqs, by id
    skipped,        \* ref_muts: the samples warned about as not found
    root,           \* ref_muts: the consensus of _derive_root_sequence
    lineage_input,  \* ref_muts: the table read from input_lineage_paths_path
    lineage_paths_df,     \* ref_muts: the parsed lineage path table
    additional_muts_file, \* the file at output_additional_muts_path
    rerooted_file,         \* the file at output_rerooted_lineage_paths_path
    started,      \* barcode command: the stages started so far, in order
    results,      \* barcode command: how each started stage ended
    tree_ext,     \* barcode command: the extension of the tree file
    tree_format,  \* barcode command: the --tree_format option
    resolved_tree_format  \* barcode command: result of resolve_tree_format

\* the variables of the inference mode
infer_vars == <<seqs, ref_seq, it, root_seqs, skipped, root>>

\* the variables of the lineage path rewriting and the two output files
path_vars == <<lineage_input, lineage_paths_df, additional_muts_file, rerooted_file>>

\* the variables of process_and_reroot_lineages
reroot_vars == <<sample_muts_df, muts, additional_muts, infer_vars, path_vars>>

\* the variables of create_barcodes_from_lineage_paths
barcode_vars == <<prefix, rows, df, df_barcodes, before, seq_muts, k, file, outcome, flip_error>>

\* the variables of the barcode command of the command line interface
cli_vars == <<started, results, tree_ext, tree_format, resolved_tree_format>>

vars == <<pc, barcode_vars, reroot_vars, cli_vars>>

\* the barcode command is not running
CliIdle ==
    /\ started = <<>>
    /\ results = <<>>
    /\ tree_ext = ""
    /\ tree_format = ""
    /\ resolved_tree_format = ""

---------------------------------------------------------------------------
(* Bounds of the model. *)

\* tokens in one lineage path table of the count family
MaxTokens == 4
\* tokens in one lineage path table that has an 'unclassified' lineage
MaxSentinelTokens == 2
\* steps of a substitution walk at one position (a single lineage)
MaxWalk == 5
\* path steps of the reference sample's mutation string
MaxRefSteps == 3
\* rows of a sample mutation table of the inference mode
MaxSamples == 3
\* candidate root sequences given to _derive_root_sequence
MaxCandidates == 4
\* length of these candidates
MaxSeqLen == 2
\* bases of all candidates of one list together
MaxBases == 4

\* tokens of the first lineage of a branching table
MaxBranchSteps == 4

---------------------------------------------------------------------------
(* Python strings and lists. *)

Range(s) == {s[i] : i \in 1..Len(s)}

\* s[-1]
LastOf(s) == s[Len(s)]

\* list.count(x) / number of i with s[i] = x
RECURSIVE CountIn(_, _)
CountIn(s, x) ==
    IF s = <<>> THEN 0
    ELSE (IF Head(s) = x THEN 1 ELSE 0) + CountIn(Tail(s), x)

\* x in list
Contains(s, x) == \E i \in 1..Len(s) : s[i] = x

\* the list without the elements that are not in keep, order kept
RECURSIVE FilterSeq(_, _)
FilterSeq(s, keep) ==
    IF s = <<>> THEN <<>>
    ELSE (IF Head(s) \in keep THEN <<Head(s)>> ELSE <<>>) \o FilterSeq(Tail(s), keep)

\* the distinct elements of a list in order of first occurrence (dict keys)
RECURSIVE Distinct(_)
Distinct(s) ==
    IF s = <<>> THEN <<>>
    ELSE LET r == Distinct(SubSeq(s, 1, Len(s) - 1))
         IN  IF Contains(r, LastOf(s)) THEN r ELSE Append(r, LastOf(s))

\* str.replace(ch, "")
RECURSIVE RemoveChar(_, _)
RemoveChar(s, ch) ==
    IF s = <<>> THEN <<>>
    ELSE (IF Head(s) = ch THEN <<>> ELSE <<Head(s)>>) \o RemoveChar(Tail(s), ch)

\* str.strip(ch)
RECURSIVE LStrip(_, _)
LStrip(s, ch) == IF s # <<>> /\ Head(s) = ch THEN LStrip(Tail(s), ch) ELSE s

RECURSIVE RStrip(_, _)
RStrip(s, ch) ==
    IF s # <<>> /\ LastOf(s) = ch THEN RStrip(SubSeq(s, 1, Len(s) - 1), ch) ELSE s

Strip(s, ch) == RStrip(LStrip(s, ch), ch)

\* str.split(ch): always at least one piece, empty pieces kept
RECURSIVE Split(_, _)
Split(s, ch) ==
    IF \A i \in 1..Len(s) : s[i] # ch THEN <<s>>
    ELSE LET p == CHOOSE i \in 1..Len(s) :
                     s[i] = ch /\ \A j \in 1..(i - 1) : s[j] # ch
         IN  <<SubSeq(s, 1, p - 1)>> \o Split(SubSeq(s, p + 1, Len(s)), ch)

\* sep.join(list)
RECURSIVE Join(_, _)
Join(l, sep) ==
    IF l = <<>> THEN <<>>
    ELSE IF Len(l) = 1 THEN l[1]
    ELSE l[1] \o sep \o Join(Tail(l), sep)

\* code points of the characters that occur in column names (Python compares
\* strings by code point)
CharCode(c) ==
    CASE c = "," -> 44
      [] c = "0" -> 48 [] c = "1" -> 49 [] c = "2" -> 50 [] c = "3" -> 51
      [] c = "4" -> 52 [] c = "5" -> 53 [] c = "6" -> 54 [] c = "7" -> 55
      [] c = "8" -> 56 [] c = "9" -> 57
      [] c = "A" -> 65 [] c = "C" -> 67 [] c = "G" -> 71 [] c = "T" -> 84

\* a < b for Python strings
RECURSIVE StrLess(_, _)
StrLess(a, b) ==
    IF b = <<>> THEN FALSE
    ELSE IF a = <<>> THEN TRUE
    ELSE IF Head(a) = Head(b) THEN StrLess(Tail(a), Tail(b))
    ELSE CharCode(Head(a)) < CharCode(Head(b))

\* the strings of a set in ascending order
RECURSIVE SortedStrings(_)
SortedStrings(S) ==
    IF S = {} THEN <<>>
    ELSE LET m == CHOOSE x \in S : \A y \in S \ {x} : StrLess(x, y)
         IN  <<m>> \o SortedStrings(S \ {m})

DigitVal(c) == CharCode(c) - 48

\* int(s) of a string of decimal digits
RECURSIVE ToInt(_)
ToInt(s) ==
    IF Len(s) = 1 THEN DigitVal(s[1])
    ELSE 10 * ToInt(SubSeq(s, 1, Len(s) - 1)) + DigitVal(LastOf(s))

\* sum of f[i] for i in 1..n
RECURSIVE SumTo(_, _)
SumTo(f, n) == IF n = 0 THEN 0 ELSE f[n] + SumTo(f, n - 1)

Min(a, b) == IF a < b THEN a ELSE b

---------------------------------------------------------------------------
(* Mutation tokens. *)

\* d[1 : len(d) - 1]
Middle(d) == SubSeq(d, 2, Len(d) - 1)

\* d[-1] + d[1 : len(d) - 1] + d[0]
flip(d) == <<LastOf(d)>> \o Middle(d) \o <<d[1]>>

\* d[0 : len(d) - 1]
site(d) == SubSeq(d, 1, Len(d) - 1)

\* d[-1] + d[1 : len(d) - 1]
flip_site(d) == <<LastOf(d)>> \o Middle(d)

\* int(x[1 : len(x) - 1])
sortFun(x) == ToInt(Middle(x))

---------------------------------------------------------------------------
(* DataFrames.  A barcode matrix is [index, columns, val]: val[i][c] is the  *)
(* cell of row number i (label index[i]) and column c.                       *)

\* an output file that is not written yet, and one written with content c
NoFile == [written |-> FALSE, content |-> <<>>]

FileOf(c) == [written |-> TRUE, content |-> c]

NoFrame == [index |-> <<>>, columns |-> <<>>, val |-> <<>>]

NRows(m) == Len(m.index)

ColSet(m) == Range(m.columns)

\* cell (i, c), an absent column reading as 0 (fillna(0) / a dropped column)
Cell(m, i, c) == IF c \in ColSet(m) THEN m.val[i][c] ELSE 0

\* df.sum(axis=0)[c]
ColSum(m, c) == SumTo([i \in 1..NRows(m) |-> m.val[i][c]], NRows(m))

\* df.drop(columns=df.columns[df.sum(axis=0) == 0])
drop_unused(m) ==
    LET keep == {c \in ColSet(m) : ColSum(m, c) # 0}
    IN  [index   |-> m.index,
         columns |-> FilterSeq(m.columns, keep),
         val     |-> [i \in 1..NRows(m) |-> [c \in keep |-> m.val[i][c]]]]

---------------------------------------------------------------------------
(* parse_tree_paths *)

\* a variant of parse_path that keeps the blanks (C20 depends on their
\* removal)
parse_path_keep_blanks(x) == Split(Strip(x, ">"), ">")

\* lambda x: x.replace(" ", "").strip(">").split(">")
parse_path(x) == Split(Strip(RemoveChar(x, " "), ">"), ">")

\* set_index("clade"), drop_duplicates(keep="last") (the clade is the index, so
\* rows are compared by from_tree_root alone; a missing field, NaN, is the
\* empty string here and equals another missing field), fillna(""), apply
parse_tree_paths(t) ==
    LET kept == {i \in 1..Len(t) :
                    \A j \in (i + 1)..Len(t) : t[j].from_tree_root # t[i].from_tree_root}
        ks   == FilterSeq([i \in 1..Len(t) |-> i], kept)
    IN  [n \in 1..Len(ks) |->
            [clade          |-> t[ks[n]].clade,
             from_tree_root |-> parse_path(t[ks[n]].from_tree_root)]]

---------------------------------------------------------------------------
(* convert_to_barcodes *)

\* the concatenation of the lists of a list
RECURSIVE Flatten(_)
Flatten(l) == IF l = <<>> THEN <<>> ELSE Head(l) \o Flatten(Tail(l))

\* the columns of the first frame: the distinct path steps of all clades
step_columns(d) == Distinct(Flatten([n \in 1..Len(d) |-> d[n].from_tree_root]))

\* temp[mt] of clade n: for every compound column c and every occurrence of mt
\* in c.split(","), df_barcodes[c] is added once
RECURSIVE temp_value(_, _, _)
temp_value(path, cs, mt) ==
    IF cs = <<>> THEN 0
    ELSE (IF Contains(Head(cs), ",")
          THEN CountIn(Split(Head(cs), ","), mt) * CountIn(path, Head(cs))
          ELSE 0)
         + temp_value(path, Tail(cs), mt)

\* a variant of barcode_value without the group sum: of two columns of one
\* name only the first is read (C1 depends on the sum)
barcode_value_nosum(path, cs, t) ==
    IF Contains(cs, t) /\ ~Contains(t, ",") THEN CountIn(path, t)
    ELSE temp_value(path, cs, t)

\* the cell after df_barcodes.T.groupby(level=0).sum().T: the kept simple
\* column of that name plus the temp column of that name
barcode_value(path, cs, t) ==
    (IF Contains(cs, t) /\ ~Contains(t, ",") THEN CountIn(path, t) ELSE 0)
    + temp_value(path, cs, t)

convert_to_barcodes(d) ==
    LET cs     == step_columns(d)
        simple == {c \in Range(cs) : ~Contains(c, ",")}
        split  == UNION {Range(Split(c, ",")) : c \in Range(cs) \ simple}
        names  == (simple \cup split) \ {<<>>}
    IN  [index   |-> [n \in 1..Len(d) |-> d[n].clade],
         columns |-> SortedStrings(names),
         val     |-> [n \in 1..Len(d) |->
                        [t \in names |-> barcode_value(d[n].from_tree_root, cs, t)]]]

\* df.loc[clade, "from_tree_root"] is a list only when the clade labels one row
unique_index(d) == \A i, j \in 1..Len(d) : d[i].clade = d[j].clade => i = j

---------------------------------------------------------------------------
(* reversion_checking *)

\* a variant of flipPairs without the pairs (d, d) of a column that is its
\* own flip (C27 depends on these pairs being netted like the others)
flipPairs_distinct(m) ==
    {<<d, flip(d)>> : d \in {c \in ColSet(m) : flip(c) \in ColSet(m) /\ flip(c) # c}}

\* flipPairs: the tuples (d, flip(d)) with both columns present; as a set, so
\* (d, flip(d)) and (flip(d), d) are both in it
flipPairs(m) == {<<d, flip(d)>> : d \in {c \in ColSet(m) : flip(c) \in ColSet(m)}}

\* a variant of subtract_min that lowers the first column of the pair only
\* (C2 depends on both columns being lowered)
subtract_min_first(m, fp) ==
    [m EXCEPT !.val =
        [i \in 1..NRows(m) |->
            LET lo == Min(m.val[i][fp[1]], m.val[i][fp[2]])
            IN  [m.val[i] EXCEPT ![fp[1]] = m.val[i][fp[1]] - lo]]]

\* df[fp] = df[fp].subtract(df[fp].min(axis=1), axis=0)
subtract_min(m, fp) ==
    [m EXCEPT !.val =
        [i \in 1..NRows(m) |->
            LET lo == Min(m.val[i][fp[1]], m.val[i][fp[2]])
            IN  [m.val[i] EXCEPT ![fp[1]] = m.val[i][fp[1]] - lo,
                                 ![fp[2]] = m.val[i][fp[2]] - lo]]]

\* a variant of subtract_pairs that handles one flip pair per call only
\* (C21 depends on every pair being handled in the same call)
subtract_first_pair(m, fps) ==
    IF fps = {} THEN m ELSE subtract_min(m, CHOOSE x \in fps : TRUE)

\* for fp in flipPairs: ...   (the set is walked in an arbitrary order)
RECURSIVE subtract_pairs(_, _)
subtract_pairs(m, fps) ==
    IF fps = {} THEN m
    ELSE LET fp == CHOOSE x \in fps : TRUE
         IN  subtract_pairs(subtract_min(m, fp), fps \ {fp})

reversion_checking(m) == drop_unused(subtract_pairs(m, flipPairs(m)))

---------------------------------------------------------------------------
(* identify_chains *)

\* df_barcodes[(df_barcodes[a] > 0) & (df_barcodes[b] > 0)]: its row numbers
lin_seq(m, a, b) == {i \in 1..NRows(m) : m.val[i][a] > 0 /\ m.val[i][b] > 0}

\* the list comprehension over i (outer) and j (inner): the candidates of
\* column i, in column order
chains_from(m, i) ==
    LET d  == m.columns[i]
        js == {j \in 1..Len(m.columns) :
                  /\ flip_site(d) = site(m.columns[j])
                  /\ flip(d) # m.columns[j]}
    IN  [n \in 1..Len(FilterSeq([j \in 1..Len(m.columns) |-> j], js)) |->
            LET j == FilterSeq([x \in 1..Len(m.columns) |-> x], js)[n]
            IN  <<d, m.columns[j], site(d) \o <<LastOf(m.columns[j])>> >>]

candidate_chains(m) == Flatten([i \in 1..Len(m.columns) |-> chains_from(m, i)])

\* a variant of observed_chains that keeps a candidate only when every
\* lineage carries both constituents (C5 depends on one lineage being enough)
RECURSIVE observed_chains_all(_, _)
observed_chains_all(m, sms) ==
    IF sms = <<>> THEN <<>>
    ELSE (IF lin_seq(m, Head(sms)[1], Head(sms)[2]) = 1..NRows(m) /\ NRows(m) > 0
          THEN <<Head(sms)>> ELSE <<>>)
         \o observed_chains_all(m, Tail(sms))

\* confirm that the mutation sequence is actually observed
RECURSIVE observed_chains(_, _)
observed_chains(m, sms) ==
    IF sms = <<>> THEN <<>>
    ELSE (IF lin_seq(m, Head(sms)[1], Head(sms)[2]) # {} THEN <<Head(sms)>> ELSE <<>>)
         \o observed_chains(m, Tail(sms))

\* a variant of one_per_site that keeps every observed candidate (C24 depends
\* on one candidate per site being kept)
one_per_site_all(sms) == sms

\* return only one mutation per site: seq_muts[i] is kept when
\* sortFun(seq_muts[i][2]) is not among the sites of seq_muts[:i]
one_per_site(sms) ==
    LET keep == {i \in 1..Len(sms) :
                    \A j \in 1..(i - 1) : sortFun(sms[j][3]) # sortFun(sms[i][3])}
    IN  [n \in 1..Len(FilterSeq([i \in 1..Len(sms) |-> i], keep)) |->
            sms[FilterSeq([i \in 1..Len(sms) |-> i], keep)[n]]]

identify_chains(m) == one_per_site(observed_chains(m, candidate_chains(m)))

---------------------------------------------------------------------------
(* check_mutation_chain *)

\* the rows that .loc[lin_seq.index, ...] selects: those labelled like a row
\* of lin_seq
loc_rows(m, a, b) ==
    {i \in 1..NRows(m) : \E j \in lin_seq(m, a, b) : m.index[j] = m.index[i]}

\* the combined column of the rows of L: created as 1 on those rows and 0
\* elsewhere when it is new, and set to 1 on those rows when it exists
write_combined(m, L, c) ==
    IF c \notin ColSet(m)
    THEN [index   |-> m.index,
          columns |-> Append(m.columns, c),
          val     |-> [i \in 1..NRows(m) |->
                         [x \in ColSet(m) \cup {c} |->
                             IF x = c THEN (IF i \in L THEN 1 ELSE 0)
                             ELSE m.val[i][x]]]]
    ELSE [m EXCEPT !.val =
             [i \in 1..NRows(m) |->
                 IF i \in L THEN [m.val[i] EXCEPT ![c] = 1] ELSE m.val[i]]]

\* a variant of remove_constituents that lowers the first constituent only
\* (C6 depends on both constituents being lowered)
remove_first_constituent(m, L, a, b) ==
    [m EXCEPT !.val =
        [i \in 1..NRows(m) |->
            IF i \in L
            THEN [x \in DOMAIN m.val[i] |->
                     IF x = a THEN m.val[i][x] - 1 ELSE m.val[i][x]]
            ELSE m.val[i]]]

\* a variant of remove_constituents that lowers the constituents in every
\* lineage (C26 depends on the lineages of lin_seq only being lowered)
remove_constituents_everywhere(m, L, a, b) ==
    [m EXCEPT !.val =
        [i \in 1..NRows(m) |->
            [x \in DOMAIN m.val[i] |->
                IF x \in {a, b} THEN m.val[i][x] - 1 ELSE m.val[i][x]]]]

\* df_barcodes.loc[lin_seq.index, sm[0:2]] -= 1
remove_constituents(m, L, a, b) ==
    [m EXCEPT !.val =
        [i \in 1..NRows(m) |->
            IF i \in L
            THEN [x \in DOMAIN m.val[i] |->
                     IF x \in {a, b} THEN m.val[i][x] - 1 ELSE m.val[i][x]]
            ELSE m.val[i]]]

\* one turn of 'for i, sm in enumerate(seq_muts)'
combine_chain(m, sm) ==
    LET L == loc_rows(m, sm[1], sm[2])
    IN  remove_constituents(write_combined(m, L, sm[3]), L, sm[1], sm[2])

RECURSIVE combine_chains(_, _)
combine_chains(m, sms) ==
    IF sms = <<>> THEN m
    ELSE combine_chains(combine_chain(m, Head(sms)), Tail(sms))

\* one turn of the while loop
chain_pass(m, sms) == reversion_checking(drop_unused(combine_chains(m, sms)))

\* the total of all cells
Mass(m) == SumTo([i \in 1..NRows(m) |->
                     SumTo([n \in 1..Len(m.columns) |-> m.val[i][m.columns[n]]],
                           Len(m.columns))],
                 NRows(m))

\* the function as a whole (the loop is bounded by the mass it consumes)
RECURSIVE chain_loop(_, _)
chain_loop(m, fuel) ==
    LET sms == identify_chains(m)
    IN  IF sms = <<>> \/ fuel = 0 THEN m
        ELSE chain_loop(chain_pass(m, sms), fuel - 1)

check_mutation_chain(m) == chain_loop(m, Mass(m) + 1)

---------------------------------------------------------------------------
(* The tail of create_barcodes_from_lineage_paths and check_no_flip_pairs *)

\* i.replace("_", "-")
RECURSIVE ReplaceChar(_, _, _)
ReplaceChar(s, from, to) ==
    IF s = <<>> THEN <<>>
    ELSE <<IF Head(s) = from THEN to ELSE Head(s)>> \o ReplaceChar(Tail(s), from, to)

replace_underscore_with_dash(m) ==
    [m EXCEPT !.index = [i \in 1..NRows(m) |-> ReplaceChar(m.index[i], "_", "-")]]

\* sorted(columns, key=sortFun): a stable sort
RECURSIVE sorted_by_site(_)
sorted_by_site(cs) ==
    IF cs = <<>> THEN <<>>
    ELSE LET i == CHOOSE x \in 1..Len(cs) :
                     /\ \A y \in 1..Len(cs) : sortFun(cs[x]) <= sortFun(cs[y])
                     /\ \A y \in 1..(x - 1) : sortFun(cs[y]) # sortFun(cs[x])
         IN  <<cs[i]>> \o sorted_by_site(SubSeq(cs, 1, i - 1) \o SubSeq(cs, i + 1, Len(cs)))

Unclassified == <<"u", "n", "c", "l", "a", "s", "s", "i", "f", "i", "e", "d">>

\* df_barcodes.drop(index="unclassified")
drop_unclassified(m) ==
    LET keep == {i \in 1..NRows(m) : m.index[i] # Unclassified}
        ks   == FilterSeq([i \in 1..NRows(m) |-> i], keep)
    IN  [index   |-> [n \in 1..Len(ks) |-> m.index[ks[n]]],
         columns |-> m.columns,
         val     |-> [n \in 1..Len(ks) |-> m.val[ks[n]]]]

\* df_barcodes.index = [prefix + "-" + str(i) for i in df_barcodes.index]
\* when 'prefix and prefix.strip() != ""'
add_prefix(m, p) ==
    IF p # <<>> /\ Strip(p, " ") # <<>>
    THEN [m EXCEPT !.index = [n \in 1..Len(m.index) |-> p \o <<"-">> \o m.index[n]]]
    ELSE m

\* lines 268-280: the frame that to_csv writes
written_frame(m) ==
    LET u == replace_underscore_with_dash(m)
        r == [u EXCEPT !.columns = sorted_by_site(u.columns)]
    IN  IF Contains(r.index, Unclassified) THEN drop_unclassified(r) ELSE r

\* a variant of flip_pairs_found that asks for a nonzero cell in both columns
\* (C8 depends on the check reading the column names only)
flip_pairs_found_supported(f) ==
    \E d \in ColSet(f) :
        /\ flip(d) \in ColSet(f)
        /\ \E i \in 1..NRows(f) : f.val[i][d] # 0
        /\ \E i \in 1..NRows(f) : f.val[i][flip(d)] # 0

\* check_no_flip_pairs: len(flipPairs) != 0, where flipPairs lists (d, flip(d))
\* for every column d of the file whose flip(d) is a column of the file
flip_pairs_found(f) == \E d \in ColSet(f) : flip(d) \in ColSet(f)

---------------------------------------------------------------------------
(* The lineage path tables the model reads. *)

Bases == {"A", "G", "T"}

\* the mutation tokens of the count family: every base pair at position 5
\* (the no-op tokens A5A, G5G, T5T included) and three tokens at position 12
CountTokens ==
    <<  <<"A", "5", "A">>, <<"A", "5", "G">>, <<"A", "5", "T">>,
        <<"G", "5", "A">>, <<"G", "5", "G">>, <<"G", "5", "T">>,
        <<"T", "5", "A">>, <<"T", "5", "G">>, <<"T", "5", "T">>,
        <<"A", "1", "2", "G">>, <<"G", "1", "2", "T">>, <<"G", "1", "2", "A">> >>

CladeNames == << <<"L", "_", "1">>, <<"L", "2">> >>

\* ">" + ">".join(tokens); a lineage without mutations has an empty field
path_string(tokens) == IF tokens = <<>> THEN <<>> ELSE <<">">> \o Join(tokens, <<">">>)

\* an item n stands for one token of one lineage: token ((n - 1) % T) + 1 of
\* lineage ((n - 1) \div T) + 1
NumItems == Len(CladeNames) * Len(CountTokens)

ItemClade(n) == ((n - 1) \div Len(CountTokens)) + 1

ItemToken(n) == CountTokens[((n - 1) % Len(CountTokens)) + 1]

\* the ascending lists of at most n items
RECURSIVE Ascending(_)
Ascending(n) ==
    IF n = 0 THEN {<<>>}
    ELSE LET P == Ascending(n - 1)
             L == {s \in P : Len(s) = n - 1}
         IN  P \cup {Append(pr[1], pr[2]) :
                        pr \in {q \in L \X (1..NumItems) :
                                   q[1] = <<>> \/ LastOf(q[1]) <= q[2]}}

RECURSIVE tokens_of(_, _)
tokens_of(items, c) ==
    IF items = <<>> THEN <<>>
    ELSE (IF ItemClade(Head(items)) = c THEN <<ItemToken(Head(items))>> ELSE <<>>)
         \o tokens_of(Tail(items), c)

CountTable(items, names) ==
    [c \in 1..Len(names) |->
        [clade |-> names[c], from_tree_root |-> path_string(tokens_of(items, c))]]

CountTables == {CountTable(a, CladeNames) : a \in Ascending(MaxTokens)}

\* the same with the sentinel lineage as second lineage
SentinelNames == << <<"L", "_", "1">>, Unclassified >>

SentinelTables == {CountTable(a, SentinelNames) : a \in Ascending(MaxSentinelTokens)}

\* path strings as matUtils and the tests write them: compound steps, blanks,
\* empty steps, leading and trailing separators, multi-digit positions
GT == <<">">>

CM == <<",">>

SP == <<" ">>

A5G == <<"A", "5", "G">>

G5T == <<"G", "5", "T">>

G5A == <<"G", "5", "A">>

A5T == <<"A", "5", "T">>

T123C == <<"T", "1", "2", "3", "C">>

G456A == <<"G", "4", "5", "6", "A">>

C789T == <<"C", "7", "8", "9", "T">>

FormatPaths ==
    { GT \o T123C \o GT \o G456A,
      GT \o C789T,
      GT \o A5G \o CM \o G5T \o GT \o A5G,
      A5G \o CM \o A5G \o SP \o GT \o SP \o A5G \o CM \o G5T,
      GT \o A5T \o CM \o CM \o G5A \o GT,
      A5G \o SP \o GT \o SP \o GT \o SP \o G5A,
      GT \o A5G \o CM \o G5T \o GT \o G5T \o CM \o A5G \o GT \o G5T,
      GT \o SP \o A5G \o SP \o GT \o GT \o SP \o G5T \o SP \o GT,
      GT \o GT,
      <<>> }

FormatTables ==
    {<< [clade |-> <<"A">>, from_tree_root |-> pr[1]],
        [clade |-> <<"B">>, from_tree_root |-> pr[2]] >> :
        pr \in FormatPaths \X FormatPaths}

\* a substitution walk b0 -> b1 -> ... at position 5 over four bases, as the
\* list of its bases
WalkBases == {"A", "C", "G", "T"}

RECURSIVE Walks(_)
Walks(n) ==
    IF n = 0 THEN {<<b>> : b \in WalkBases}
    ELSE LET P == Walks(n - 1)
         IN  P \cup {Append(pr[1], pr[2]) :
                        pr \in {q \in {w \in P : Len(w) = n} \X WalkBases :
                                   LastOf(q[1]) # q[2]}}

walk_tokens(w) == [i \in 1..(Len(w) - 1) |-> <<w[i], "5", w[i + 1]>>]

\* tokens at another position that the walk is mixed with
WalkExtras == { <<>>, << <<"A", "1", "2", "G">> >>,
                << <<"G", "1", "2", "T">>, <<"A", "1", "2", "G">> >> }

WalkTable(w, e) ==
    << [clade |-> CladeNames[1], from_tree_root |-> path_string(walk_tokens(w) \o e)] >>

WalkTables == {WalkTable(pr[1], pr[2]) : pr \in Walks(MaxWalk) \X WalkExtras}

\* tables in which a clade id labels several rows: two or three rows, clade
\* ids A and B, three path strings
DupClades == { <<"A">>, <<"B">> }

DupPaths == { GT \o A5G, GT \o G5T, <<>> }

DupRows == [clade : DupClades, from_tree_root : DupPaths]

DupTables == UNION {[1..n -> DupRows] : n \in 2..3}

\* tables in which the first lineage carries up to MaxBranchSteps tokens of a
\* branching walk at position 5 over four bases and the second lineage at
\* most one of these tokens
A5C == <<"A", "5", "C">>

C5G == <<"C", "5", "G">>

BranchTokens == << A5C, C5G, G5T, A5G >>

\* the tokens of a count vector, token i repeated cnt[i] times
RECURSIVE repeat_tokens(_, _)
repeat_tokens(cnt, i) ==
    IF i > Len(BranchTokens) THEN <<>>
    ELSE [n \in 1..cnt[i] |-> BranchTokens[i]] \o repeat_tokens(cnt, i + 1)

BranchPaths(max) ==
    {path_string(repeat_tokens(cnt, 1)) :
        cnt \in {f \in [1..Len(BranchTokens) -> 0..max] :
                    SumTo(f, Len(BranchTokens)) <= max}}

BranchTables ==
    {<< [clade |-> CladeNames[1], from_tree_root |-> pr[1]],
        [clade |-> CladeNames[2], from_tree_root |-> pr[2]] >> :
        pr \in BranchPaths(MaxBranchSteps) \X BranchPaths(1)}

InputTables ==
    CountTables \cup SentinelTables \cup FormatTables \cup WalkTables \cup DupTables
    \cup BranchTables

\* the prefix argument: absent, blank, plain, with an underscore
Prefixes == { <<>>, <<" ">>, <<"P">>, <<"P", "_">> }

\* the tables that are also run with a prefix
PrefixTables == SentinelTables \cup FormatTables \cup DupTables

---------------------------------------------------------------------------
(* create_barcodes_from_lineage_paths, one action per statement.           *)

Init ==
    /\ pc = "parse"
    /\ rows \in InputTables
    /\ prefix \in Prefixes
    /\ prefix # <<>> => rows \in PrefixTables
    /\ df = <<>>
    /\ df_barcodes = NoFrame
    /\ before = NoFrame
    /\ seq_muts = <<>>
    /\ k = 0
    /\ file = NoFrame
    /\ outcome = "running"
    /\ flip_error = FALSE
    /\ sample_muts_df = <<>>
    /\ muts = <<>>
    /\ additional_muts = <<>>
    /\ seqs = <<>>
    /\ ref_seq = <<>>
    /\ it = 0
    /\ root_seqs = <<>>
    /\ skipped = <<>>
    /\ root = <<>>
    /\ lineage_input = <<>>
    /\ lineage_paths_df = <<>>
    /\ additional_muts_file = NoFile
    /\ rerooted_file = NoFile
    /\ CliIdle

\* df = parse_tree_paths(pd.read_csv(input_file_path, sep="\t"))
ParseTreePaths ==
    /\ pc = "parse"
    /\ df' = parse_tree_paths(rows)
    /\ pc' = "convert"
    /\ UNCHANGED <<cli_vars, prefix, rows, df_barcodes, before, seq_muts, k, file, outcome,
                   flip_error, reroot_vars>>

\* df_barcodes = convert_to_barcodes(df); a clade that labels several rows
\* makes df.loc[clade, "from_tree_root"] a Series and the call raises
ConvertToBarcodes ==
    /\ pc = "convert"
    /\ IF unique_index(df)
       THEN /\ df_barcodes' = convert_to_barcodes(df)
            /\ pc' = "prefix"
            /\ outcome' = outcome
       ELSE /\ df_barcodes' = df_barcodes
            /\ pc' = "done"
            /\ outcome' = "raised"
    /\ before' = df_barcodes
    /\ UNCHANGED <<cli_vars, prefix, rows, df, seq_muts, k, file, flip_error, reroot_vars>>

\* lines 250-254: a prefix that is not blank is put before every row label
AddPrefix ==
    /\ pc = "prefix"
    /\ df_barcodes' = add_prefix(df_barcodes, prefix)
    /\ before' = df_barcodes
    /\ pc' = "reversion"
    /\ UNCHANGED <<cli_vars, prefix, rows, df, seq_muts, k, file, outcome, flip_error,
                   reroot_vars>>

\* df_barcodes = reversion_checking(df_barcodes): line 259, and line 208
\* inside the loop of check_mutation_chain
ReversionChecking ==
    /\ pc \in {"reversion", "loop_reversion"}
    /\ df_barcodes' = reversion_checking(df_barcodes)
    /\ before' = df_barcodes
    /\ pc' = IF pc = "reversion" THEN "chains" ELSE "loop_identify"
    /\ UNCHANGED <<cli_vars, prefix, rows, df, seq_muts, k, file, outcome, flip_error,
                   reroot_vars>>

\* line 107 with a column that is its own flip (reference base = mutant
\* base): fp names that column twice, df_barcodes[fp] has two columns of one
\* name, and the assignment of such a frame to one column is refused by
\* pandas versions that check the column count (ValueError); versions that
\* assign by position zero the column, which is ReversionChecking.  The
\* error is not caught and ends create_barcodes_from_lineage_paths.
ReversionCheckingRaises ==
    /\ pc \in {"reversion", "loop_reversion"}
    /\ \E d \in ColSet(df_barcodes) : flip(d) = d
    /\ outcome' = "raised"
    /\ pc' = "done"
    /\ UNCHANGED <<cli_vars, prefix, rows, df, df_barcodes, before, seq_muts, k, file,
                   flip_error, reroot_vars>>

\* seq_muts = identify_chains(df_barcodes) and the test of the while loop:
\* line 183, and line 209 inside the loop
IdentifyChains ==
    /\ pc \in {"chains", "loop_identify"}
    /\ seq_muts' = identify_chains(df_barcodes)
    /\ k' = 0
    /\ pc' = IF seq_muts' = <<>> THEN "write" ELSE "combine"
    /\ UNCHANGED <<cli_vars, prefix, rows, df, df_barcodes, before, file, outcome, flip_error,
                   reroot_vars>>

\* one turn of 'for i, sm in enumerate(seq_muts)' (lines 186-201)
CombineChain ==
    /\ pc = "combine"
    /\ df_barcodes' = combine_chain(df_barcodes, seq_muts[k + 1])
    /\ before' = df_barcodes
    /\ k' = k + 1
    /\ pc' = IF k + 1 = Len(seq_muts) THEN "drop" ELSE "combine"
    /\ UNCHANGED <<cli_vars, prefix, rows, df, seq_muts, file, outcome, flip_error,
                   reroot_vars>>

\* drop all unused mutations (lines 204-206)
DropUnused ==
    /\ pc = "drop"
    /\ df_barcodes' = drop_unused(df_barcodes)
    /\ before' = df_barcodes
    /\ pc' = "loop_reversion"
    /\ UNCHANGED <<cli_vars, prefix, rows, df, seq_muts, k, file, outcome, flip_error,
                   reroot_vars>>

\* lines 268-280: underscores, column order, the unclassified row, to_csv
WriteBarcodes ==
    /\ pc = "write"
    /\ df_barcodes' = written_frame(df_barcodes)
    /\ before' = df_barcodes
    /\ file' = df_barcodes'
    /\ pc' = "check"
    /\ UNCHANGED <<cli_vars, prefix, rows, df, seq_muts, k, outcome, flip_error, reroot_vars>>

\* lines 286-292: check_no_flip_pairs(output_file_path) inside try/except
\* Exception: the exception is printed and the function returns
CheckNoFlipPairs ==
    /\ pc = "check"
    /\ flip_error' = flip_pairs_found(file)
    /\ outcome' = "returned"
    /\ pc' = "done"
    /\ UNCHANGED <<cli_vars, prefix, rows, df, df_barcodes, before, seq_muts, k, file, reroot_vars>>

Next ==
    \/ ParseTreePaths
    \/ ConvertToBarcodes
    \/ AddPrefix
    \/ ReversionChecking
    \/ ReversionCheckingRaises
    \/ IdentifyChains
    \/ CombineChain
    \/ DropUnused
    \/ WriteBarcodes
    \/ CheckNoFlipPairs

Spec == Init /\ [][Next]_vars

---------------------------------------------------------------------------
(* Claims about the barcode pipeline. *)

\* all tokens of a path: every step split on ','
path_tokens(path) == Flatten([n \in 1..Len(path) |-> Split(path[n], ",")])

\* every token that occurs in some path of the parsed table
AllTokens == UNION {Range(path_tokens(df[n].from_tree_root)) : n \in 1..Len(df)}

ExampleTable ==
    << [clade |-> <<"A">>, from_tree_root |-> GT \o T123C \o GT \o G456A],
       [clade |-> <<"B">>, from_tree_root |-> GT \o C789T] >>

AfterReversion == pc \in {"chains", "loop_identify"}

\* C2: reversion_checking: for columns d and flip(d) both present and every
\* lineage, the new value of each is its old value minus the smaller of the
\* two old values (a dropped column reads 0); so the smaller of the two new
\* values is 0 and their difference is unchanged; a column without flip
\* partner keeps its values.
C2_ReversionNetsPairs ==
    AfterReversion =>
        \A d \in ColSet(before) : \A i \in 1..NRows(before) :
            IF flip(d) \in ColSet(before)
            THEN LET lo == Min(before.val[i][d], before.val[i][flip(d)])
                 IN  /\ Cell(df_barcodes, i, d) = before.val[i][d] - lo
                     /\ Cell(df_barcodes, i, flip(d)) = before.val[i][flip(d)] - lo
                     /\ Min(Cell(df_barcodes, i, d), Cell(df_barcodes, i, flip(d))) = 0
                     /\ Cell(df_barcodes, i, d) - Cell(df_barcodes, i, flip(d))
                           = before.val[i][d] - before.val[i][flip(d)]
            ELSE Cell(df_barcodes, i, d) = before.val[i][d]

\* C2 witness: a lineage with 2 of d and 1 of flip(d) keeps 1 of d
C2_Witness ==
    /\ AfterReversion
    /\ \E d \in ColSet(before) : \E i \in 1..NRows(before) :
          /\ flip(d) \in ColSet(before) /\ flip(d) # d
          /\ before.val[i][d] = 2 /\ before.val[i][flip(d)] = 1
          /\ Cell(df_barcodes, i, d) = 1
          /\ flip(d) \notin ColSet(df_barcodes)

\* two different columns that are flip partners of each other
FlipPartners(d, e) ==
    /\ d # e
    /\ Len(d) = Len(e)
    /\ Middle(d) = Middle(e)
    /\ d[1] = LastOf(e)
    /\ e[1] = LastOf(d)

\* C3 (as claimed): the written barcode matrix has no two columns that are
\* flip partners at the same position.
C3_NoFlipPartnerColumns ==
    pc \in {"check", "done"} /\ outcome # "raised" =>
        \A d, e \in ColSet(file) : ~FlipPartners(d, e)

\* the tokens of the only lineage at position 5, in path order
WalkSteps == LET ts == path_tokens(df[1].from_tree_root)
             IN  FilterSeq(ts, {t \in Range(ts) : Middle(t) = <<"5">>})

\* the table has one lineage whose position-5 tokens are a substitution walk
IsWalkTable ==
    /\ Len(rows) = 1
    /\ Len(df) = 1
    /\ WalkSteps # <<>>
    /\ \A n \in 1..Len(WalkSteps) : Len(WalkSteps[n]) = 3
    /\ \A n \in 1..(Len(WalkSteps) - 1) : LastOf(WalkSteps[n]) = WalkSteps[n + 1][1]

\* the nonzero columns of row i at position 5
NonzeroAtSite(m, i) == {c \in ColSet(m) : Middle(c) = <<"5">> /\ m.val[i][c] # 0}

\* C4 (as claimed): for a single lineage whose tokens at a position are a
\* walk b0 -> ... -> bk, reversion_checking and check_mutation_chain leave
\* exactly the column b0.p.bk with value 1 when b0 # bk, and no nonzero
\* column at p when b0 = bk.
C4_WalkNetEffect ==
    pc = "write" /\ IsWalkTable =>
        LET b0 == WalkSteps[1][1]
            bk == LastOf(LastOf(WalkSteps))
        IN  IF b0 = bk
            THEN NonzeroAtSite(df_barcodes, 1) = {}
            ELSE /\ NonzeroAtSite(df_barcodes, 1) = {<<b0, "5", bk>>}
                 /\ df_barcodes.val[1][<<b0, "5", bk>>] = 1

\* a resolvable chain: a and b at the same position, a's mutant base is b's
\* reference base, b is not the flip partner of a, and a lineage carries both
ChainPair(m, a, b) ==
    /\ Len(a) >= 2 /\ Len(b) >= 2
    /\ Middle(a) = Middle(b)
    /\ LastOf(a) = b[1]
    /\ ~(b[1] = LastOf(a) /\ LastOf(b) = a[1])
    /\ \E i \in 1..NRows(m) : m.val[i][a] > 0 /\ m.val[i][b] > 0

\* C5: the matrix check_mutation_chain returns has no resolvable chain,
\* identify_chains finds no candidate in it, and check_mutation_chain
\* applied to it returns it unchanged.
C5_ChainFreeFixpoint ==
    pc = "write" =>
        /\ \A a, b \in ColSet(df_barcodes) : ~ChainPair(df_barcodes, a, b)
        /\ identify_chains(df_barcodes) = <<>>
        /\ check_mutation_chain(df_barcodes) = df_barcodes

\* C5 witness: check_mutation_chain returns after it combined a chain
C5_Witness ==
    /\ pc = "write"
    /\ \E c \in ColSet(df_barcodes) : c \notin AllTokens

\* all cells are natural numbers
NonNegative(m) == \A i \in 1..NRows(m) : \A c \in ColSet(m) : m.val[i][c] >= 0

\* C6: check_mutation_chain terminates: the total of all cells is a natural
\* number that every chain combination strictly decreases and that dropping
\* columns and reversion_checking never increase, so a pass (at least one
\* combination) strictly decreases it and no matrix can recur.
C6_PassesDecreaseMass ==
    /\ pc \in {"combine", "drop", "loop_reversion", "loop_identify"} =>
          NonNegative(df_barcodes)
    /\ (pc \in {"combine", "drop"} /\ k >= 1) => Mass(df_barcodes) < Mass(before)
    /\ pc \in {"loop_reversion", "loop_identify"} => Mass(df_barcodes) <= Mass(before)

\* C6 witness: the loop is in its third pass at least
C6_Witness ==
    /\ pc = "combine"
    /\ k = 0
    /\ Mass(df_barcodes) + 2 <= Mass(convert_to_barcodes(df))
    /\ \E c, e \in ColSet(df_barcodes) : c # e /\ c \notin AllTokens /\ e \notin AllTokens

\* C7 (as claimed): when the written matrix still has a flip pair, the call
\* fails with an error that reaches the caller.
C7_FlipPairRaises ==
    (pc = "done" /\ \E d, e \in ColSet(file) : FlipPartners(d, e)) => outcome = "raised"

\* a column with a nonzero cell in some lineage
Supported(f, d) == \E i \in 1..NRows(f) : f.val[i][d] # 0

\* C8 (as claimed): check_no_flip_pairs raises exactly when two columns d and
\* flip(d) both exist and both have nonzero support.
C8_RaisesIffSupportedPair ==
    pc = "done" /\ outcome = "returned" =>
        (flip_error <=> \E d \in ColSet(file) :
                            /\ flip(d) \in ColSet(file)
                            /\ Supported(file, d) /\ Supported(file, flip(d)))

\* C8 (amended): check_no_flip_pairs raises exactly when the file has a column
\* d whose flip(d) is a column of the file too, whatever the cells hold (a
\* column whose two bases are equal is its own flip).
C8_RaisesIffPairColumns ==
    pc = "done" /\ outcome = "returned" =>
        (flip_error <=>
            \E d, e \in ColSet(file) :
                /\ Len(d) = Len(e)
                /\ Middle(d) = Middle(e)
                /\ d[1] = LastOf(e)
                /\ e[1] = LastOf(d))

\* C8 witness: the check raised on a file in which one column of the pair is
\* zero in every lineage
C8_Witness ==
    /\ pc = "done"
    /\ flip_error
    /\ \E d \in ColSet(file) : flip(d) \in ColSet(file) /\ ~Supported(file, flip(d))

\* C9 (as claimed): a chain combination decrements both constituents by 1 and
\* increments the combined column by 1 (created as 0 when absent) for every
\* lineage that had nonzero counts in both constituents.
C9_CombineIncrements ==
    (pc \in {"combine", "drop"} /\ k >= 1) =>
        LET sm == seq_muts[k]
        IN  \A i \in lin_seq(before, sm[1], sm[2]) :
                /\ df_barcodes.val[i][sm[1]] = before.val[i][sm[1]] - 1
                /\ df_barcodes.val[i][sm[2]] = before.val[i][sm[2]] - 1
                /\ df_barcodes.val[i][sm[3]] = Cell(before, i, sm[3]) + 1

\* the call wrote the barcode file
Written == pc \in {"check", "done"} /\ outcome # "raised"

EndsWith(s, t) == Len(s) >= Len(t) /\ SubSeq(s, Len(s) - Len(t) + 1, Len(s)) = t

\* the prefix is not blank
NonBlank(p) == \E i \in 1..Len(p) : p[i] # " "

\* C17 (as claimed): the written barcode matrix has no row for the lineage
\* named 'unclassified' in the input, without a prefix and with a prefix.
C17_UnclassifiedDropped ==
    Written => \A n \in 1..NRows(file) : ~EndsWith(file.index[n], Unclassified)

\* the row label the claim gives the lineage c under prefix p
ClaimedLabel(p, c) ==
    (IF NonBlank(p) THEN p \o <<"-">> ELSE <<>>) \o ReplaceChar(c, "_", "-")

\* C18 (as claimed): the row labels of the barcode file are, in order, the
\* labels P + '-' + (lineage id with '_' replaced by '-') of the parsed
\* lineages for a prefix P that is not blank, the prefix verbatim, and the
\* lineage ids with '_' replaced by '-' for an empty or blank prefix; the row
\* labelled 'unclassified' is not written.
C18_RowLabels ==
    Written =>
        LET labels == [n \in 1..Len(df) |-> ClaimedLabel(prefix, df[n].clade)]
        IN  file.index = FilterSeq(labels, Range(labels) \ {Unclassified})

\* the rows of the input table labelled by clade id c
RowsOf(c) == {i \in 1..Len(rows) : rows[i].clade = c}

\* C19 (as claimed): of several input rows with one clade id parse_tree_paths
\* keeps exactly one, the last in input order, so every clade id labels at
\* most one row of the result.
C19_DuplicateCladesKeepLast ==
    pc = "convert" =>
        /\ \A n, m \in 1..Len(df) : df[n].clade = df[m].clade => n = m
        /\ \A c \in {rows[i].clade : i \in 1..Len(rows)} :
              Cardinality(RowsOf(c)) >= 2 =>
                  LET last == CHOOSE i \in RowsOf(c) : \A j \in RowsOf(c) : j <= i
                  IN  \E n \in 1..Len(df) :
                          /\ df[n].clade = c
                          /\ df[n].from_tree_root
                               = Split(Strip(RemoveChar(rows[last].from_tree_root, " "), ">"), ">")

\* the rows of the input that parse_tree_paths keeps, in input order
KeptRows ==
    FilterSeq([i \in 1..Len(rows) |-> i],
              {i \in 1..Len(rows) :
                  \A j \in (i + 1)..Len(rows) :
                      rows[j].from_tree_root # rows[i].from_tree_root})

\* the string s is x without its blanks, without lead leading characters and
\* without trail trailing characters, all of them '>'
StrippedOf(s, x, lead, trail) ==
    LET y == RemoveChar(x, " ")
    IN  /\ lead + Len(s) + trail = Len(y)
        /\ SubSeq(y, lead + 1, lead + Len(s)) = s
        /\ \A i \in 1..lead : y[i] = ">"
        /\ \A i \in (Len(y) - trail + 1)..Len(y) : y[i] = ">"

\* the steps of a parsed path are the pieces of s between its '>' separators,
\* in the order of s
StepsOf(path, s) ==
    /\ path # <<>>
    /\ Join(path, <<">">>) = s
    /\ \A n \in 1..Len(path) : ~Contains(path[n], ">") /\ ~Contains(path[n], " ")

---------------------------------------------------------------------------
(* ref_muts.py: the direct mode of process_and_reroot_lineages.            *)

\* the characters of [A-Za-z0-9,] that occur in the strings of the model
MutChars ==
    {"A", "C", "G", "T", "N", "g", "n", "r", "s", ",",
     "0", "1", "2", "3", "4", "5", "6", "7", "8", "9"}

\* the length of the longest prefix of s made of characters of S
RECURSIVE RunLength(_, _)
RunLength(s, S) ==
    IF s # <<>> /\ Head(s) \in S THEN 1 + RunLength(Tail(s), S) ELSE 0

\* MUT_PATTERN.findall(s) for ([^:]+):([A-Za-z0-9,]+): a match starts at the
\* scan position when the text up to the next ':' is not empty and a
\* character of the class follows the ':'; the scan goes on after the match,
\* and after that ':' when nothing before it can match
RECURSIVE findall(_)
findall(s) ==
    IF ~Contains(s, ":") THEN <<>>
    ELSE LET q   == CHOOSE i \in 1..Len(s) : s[i] = ":" /\ \A j \in 1..(i - 1) : s[j] # ":"
             run == RunLength(SubSeq(s, q + 1, Len(s)), MutChars)
         IN  IF q = 1 THEN findall(Tail(s))
             ELSE IF run = 0 THEN findall(SubSeq(s, q + 1, Len(s)))
             ELSE << <<SubSeq(s, 1, q - 1), SubSeq(s, q + 1, q + run)>> >>
                  \o findall(SubSeq(s, q + run + 1, Len(s)))

Reverse(l) == [i \in 1..Len(l) |-> l[Len(l) + 1 - i]]

\* OrderedDict(pairs): a key stands where it first occurs and holds the value
\* of its last occurrence
OrderedDictOf(pairs) ==
    LET keys == Distinct([i \in 1..Len(pairs) |-> pairs[i][1]])
    IN  [n \in 1..Len(keys) |->
            LET last == CHOOSE i \in 1..Len(pairs) :
                            /\ pairs[i][1] = keys[n]
                            /\ \A j \in (i + 1)..Len(pairs) : pairs[j][1] # keys[n]
            IN  [key |-> keys[n], value |-> pairs[last][2]]]

\* _extract_mutations: a missing or empty field gives the empty dict
extract_mutations(muts_str) ==
    IF muts_str = <<>> THEN <<>>
    ELSE LET found == Reverse(findall(muts_str))
         IN  OrderedDictOf([i \in 1..Len(found) |->
                               <<Strip(found[i][1], " "), Split(found[i][2], ",")>>])

\* one mutation i of the inner loop of _reverse_mutations_to_root
record_mutation(root_muts, i) ==
    LET nuc_loc == ToInt(Middle(i))
    IN  IF \E n \in 1..Len(root_muts) : root_muts[n].pos = nuc_loc
        THEN [n \in 1..Len(root_muts) |->
                 IF root_muts[n].pos = nuc_loc
                 THEN [root_muts[n] EXCEPT !.mut = <<i[1]>>]
                 ELSE root_muts[n]]
        ELSE Append(root_muts, [pos |-> nuc_loc, base |-> <<LastOf(i)>>, mut |-> <<i[1]>>])

RECURSIVE record_mutations(_, _)
record_mutations(root_muts, l) ==
    IF l = <<>> THEN root_muts
    ELSE record_mutations(record_mutation(root_muts, Head(l)), Tail(l))

\* _reverse_mutations_to_root: the dict as the list of its entries in
\* insertion order
reverse_mutations_to_root(d) ==
    IF d = <<>> THEN << [pos |-> 0, base |-> <<>>, mut |-> <<>>] >>
    ELSE record_mutations(<<>>, Flatten([n \in 1..Len(d) |-> d[n].value]))

\* lines 147-149: change the base key to ref and the mut key to root
relabel(root_muts) ==
    [n \in 1..Len(root_muts) |->
        [pos |-> root_muts[n].pos, ref |-> root_muts[n].base, root |-> root_muts[n].mut]]

\* a variant of sanitize_mutation_data that keeps the entries with a gap (C16
\* depends on their removal)
sanitize_keep_gaps(mutations) ==
    LET ks == FilterSeq([n \in 1..Len(mutations) |-> n],
                        {n \in 1..Len(mutations) : mutations[n].ref # mutations[n].root})
    IN  [n \in 1..Len(ks) |-> mutations[ks[n]]]

\* _sanitize_mutation_data
sanitize_mutation_data(mutations) ==
    LET keep == {n \in 1..Len(mutations) :
                    /\ ~(Contains(mutations[n].root, "-") \/ Contains(mutations[n].ref, "-"))
                    /\ mutations[n].ref # mutations[n].root}
        ks   == FilterSeq([n \in 1..Len(mutations) |-> n], keep)
    IN  [n \in 1..Len(ks) |-> mutations[ks[n]]]

\* ref.id
RefId == <<"r">>

\* sample_muts_df[sample_muts_df["sample"] == ref.id]: its row numbers
ref_rows(t) == {i \in 1..Len(t) : t[i].sample = RefId}

\* ... .iloc[0]
first_ref_row(t) == t[CHOOSE i \in ref_rows(t) : \A j \in ref_rows(t) : i <= j]

---------------------------------------------------------------------------
(* The sample mutation tables the model reads. *)

A1T == <<"A", "1", "T">>

T1G == <<"T", "1", "G">>

T1A == <<"T", "1", "A">>

G2C == <<"G", "2", "C">>

\* the mutations of one path step
RefTokenLists == { <<A1T>>, <<T1G>>, <<T1A>>, <<G2C>>, <<A1T, G2C>>, <<A1T, T1G>> }

\* a step is labelled by a gene name, the same on every step, or by the
\* identifier of its node
StepKinds == {"gene", "node"}

Digits == <<"1", "2", "3", "4", "5", "6", "7", "8", "9">>

step_key(n, kind) == IF kind = "gene" THEN <<"g">> ELSE <<"n", Digits[n]>>

StepChoices == StepKinds \X RefTokenLists

RefPaths == UNION {[1..n -> StepChoices] : n \in 0..MaxRefSteps}

\* the steps are separated by '>' or by a blank
Separators == { <<">">>, <<" ">> }

mutation_string(path, sep) ==
    Join([n \in 1..Len(path) |->
             step_key(n, path[n][1]) \o <<":">> \o Join(path[n][2], <<",">>)],
         sep)

OtherSample == [sample |-> <<"s">>, mutations |-> <<"n", "1", ":", "T", "1", "A">>]

SampleTables ==
    UNION {{ << [sample |-> RefId, mutations |-> mutation_string(pr[1], pr[2])] >>,
             << OtherSample, [sample |-> RefId, mutations |-> mutation_string(pr[1], pr[2])] >> } :
           pr \in RefPaths \X Separators}

---------------------------------------------------------------------------
(* ref_muts.py: the inference mode and the rewriting of the lineage paths. *)

\* x.upper() on the letters of the model
Upper(c) ==
    CASE c = "a" -> "A"
      [] c = "c" -> "C"
      [] c = "g" -> "G"
      [] c = "t" -> "T"
      [] c = "n" -> "N"
      [] OTHER   -> c

\* s[:e], for an end e that may be negative or beyond the string
PyPrefix(s, e) ==
    LET stop == IF e < 0 THEN (IF Len(s) + e < 0 THEN 0 ELSE Len(s) + e)
                ELSE (IF e > Len(s) THEN Len(s) ELSE e)
    IN  SubSeq(s, 1, stop)

\* s[b:], for a start b >= 0
PySuffix(s, b) == IF b >= Len(s) THEN <<>> ELSE SubSeq(s, b + 1, Len(s))

\* _construct_root_sequence: every entry of root_muts, in order, puts its mut
\* base at its position (seq[:key - 1] + mut + seq[key:])
RECURSIVE construct_root_sequence(_, _)
construct_root_sequence(root_muts, seq) ==
    IF root_muts = <<>> THEN seq
    ELSE construct_root_sequence(
             Tail(root_muts),
             PyPrefix(seq, Head(root_muts).pos - 1) \o Head(root_muts).mut
                 \o PySuffix(seq, Head(root_muts).pos))

\* _compare_sequences: the positions of zip(ref.seq, root) at which the upper
\* case bases differ and neither is N
compare_sequences(ref, rt) ==
    LET n    == Min(Len(ref), Len(rt))
        diff == {i \in 1..n :
                    /\ Upper(ref[i]) # Upper(rt[i])
                    /\ Upper(ref[i]) # "N"
                    /\ Upper(rt[i]) # "N"}
        ps   == FilterSeq([i \in 1..n |-> i], diff)
    IN  [x \in 1..Len(ps) |->
            [pos |-> ps[x], ref |-> <<Upper(ref[ps[x]])>>, root |-> <<Upper(rt[ps[x]])>>]]

\* a variant of valid that keeps the rows without mutation string (C12
\* depends on their removal)
valid_all(t) == t

\* sample_muts_df.loc[sample_muts_df["mutations"].notnull(), ...]
valid(t) == FilterSeq(t, {r \in Range(t) : r.mutations # <<>>})

\* the sequences of the records of root_seqs: a record is appended by
\* reference and _construct_root_sequence changes it in place
candidates(rs, sq) == [n \in 1..Len(rs) |-> sq[rs[n]]]

\* nucs of _derive_root_sequence at position i, before the filter
nucs_at(cands, i) == [n \in 1..Len(cands) |-> cands[n][i]]

\* a variant of filtered_nucs that discards nothing (C13 depends on the
\* filter)
filtered_nucs_none(nucs) == nucs

\* nucs after the filter of lines 91-95
filtered_nucs(nucs) ==
    FilterSeq(nucs, {x \in Range(nucs) :
                        \/ Upper(x) \in {"A", "T", "C", "G", "N"}
                        \/ Cardinality(Range(nucs)) = 1})

\* max(set(nucs), key=nucs.count) returns the first element of maximal count
\* in the iteration order of the set, which follows the hash values of the
\* strings (they change from one interpreter run to the next): any element of
\* maximal count can be the result
max_count(nucs) ==
    {x \in Range(nucs) : \A y \in Range(nucs) : CountIn(nucs, y) <= CountIn(nucs, x)}

\* line 89 reads seq.seq[i] for i below the length of the first candidate
derive_index_error(cands) == \E n \in 1..Len(cands) : Len(cands[n]) < Len(cands[1])

\* max() of an empty set raises ValueError
derive_value_error(cands) ==
    \E i \in 1..Len(cands[1]) : filtered_nucs(nucs_at(cands, i)) = <<>>

\* the strings _derive_root_sequence can return
derive_root_sequence(cands) ==
    {r \in [1..Len(cands[1]) -> UNION {Range(c) : c \in Range(cands)}] :
        \A i \in 1..Len(cands[1]) : r[i] \in max_count(filtered_nucs(nucs_at(cands, i)))}

\* _parse_tree_paths of ref_muts.py, after fillna(""): x.split(" ")
ref_parse_tree_paths(t) ==
    [n \in 1..Len(t) |->
        [clade |-> t[n].clade, from_tree_root |-> Split(t[n].from_tree_root, " ")]]

DigitChar(n) == CHOOSE c \in {"0", "1", "2", "3", "4", "5", "6", "7", "8", "9"} : DigitVal(c) = n

\* str(i)
RECURSIVE ToStr(_)
ToStr(n) == IF n < 10 THEN <<DigitChar(n)>> ELSE ToStr(n \div 10) \o <<DigitChar(n % 10)>>

\* lines 200-204: ref + str(position) + root of every additional mutation
additional_muts_list(am) ==
    [n \in 1..Len(am) |-> am[n].ref \o ToStr(am[n].pos) \o am[n].root]

\* update_path (lines 222-233)
update_path(path_list, aml) ==
    IF path_list = <<>> THEN Join(aml, <<",">>)
    ELSE LET first_node      == path_list[1]
             remaining_nodes == Join(Tail(path_list), <<" ">>)
             new_path_parts  ==
                 <<first_node>>
                 \o (IF aml # <<>> THEN <<Join(aml, <<",">>)>> ELSE <<>>)
                 \o (IF remaining_nodes # <<>> THEN <<remaining_nodes>> ELSE <<>>)
         IN  Join(new_path_parts, <<" ", ">", " ">>)

\* a variant of rewrite_paths without the branch of line 206 (C22 depends on
\* the empty list being handled apart)
rewrite_paths_always(d, aml) ==
    [n \in 1..Len(d) |->
        [clade          |-> d[n].clade,
         from_tree_root |-> update_path(d[n].from_tree_root, aml)]]

\* lines 206-237: the from_tree_root column after the rewriting
rewrite_paths(d, aml) ==
    [n \in 1..Len(d) |->
        [clade          |-> d[n].clade,
         from_tree_root |-> IF aml = <<>> THEN Join(d[n].from_tree_root, <<" ">>)
                            ELSE update_path(d[n].from_tree_root, aml)]]

---------------------------------------------------------------------------
(* The inputs of the inference mode and the lineage path tables. *)

S1 == <<"s", "1">>

S2 == <<"s", "2">>

S3 == <<"s", "3">>

InferSamples == {S1, S2, S3}

\* the sequence of the record of a sample, when the sequence set has one
SampleSeq(id) ==
    CASE id = S1 -> <<"T", "C">>
      [] id = S2 -> <<"A", "G">>
      [] OTHER   -> <<"T", "G">>

\* a missing mutation field, a mutation at position 1, one at position 2, two
\* steps that change position 1 twice, a node label without mutations
InferMutations ==
    { <<>>,
      <<"n", "1", ":">> \o A1T,
      <<"n", "1", ":">> \o <<"C", "2", "G">>,
      <<"n", "1", ":">> \o A1T \o <<" ", "n", "2", ":">> \o T1G,
      <<"n", "1">> }

InferRows == [sample : InferSamples, mutations : InferMutations]

\* at most MaxSamples rows, every sample at most once
InferTables ==
    UNION {{t \in [1..n -> InferRows] :
               \A a, b \in 1..n : t[a].sample = t[b].sample => a = b} :
           n \in 0..MaxSamples}

\* the sequence sets: the records of any subset of the samples
SeqSets == {[id \in P |-> SampleSeq(id)] : P \in SUBSET InferSamples}

\* the sequence of the reference: plain, with a gap, with an N
RefSeqs == { <<"A", "C">>, <<"T", "-">>, <<"N", "G">> }

\* lineage paths: '>'-delimited without blanks, with blanks around the
\* separators, missing, a single step, node names separated by blanks
LineagePaths ==
    << A5G \o GT \o G5T \o GT \o A5T,
       A5G \o SP \o GT \o SP \o G5T \o SP \o GT \o SP \o A5T,
       <<>>,
       A5G,
       <<"n", "1", " ", "n", "2">> >>

LineagePathTables ==
    { << [clade |-> <<"A">>, from_tree_root |-> LineagePaths[1]],
         [clade |-> <<"B">>, from_tree_root |-> LineagePaths[2]] >>,
      << [clade |-> <<"A">>, from_tree_root |-> LineagePaths[3]],
         [clade |-> <<"B">>, from_tree_root |-> LineagePaths[5]] >>,
      << [clade |-> <<"A">>, from_tree_root |-> LineagePaths[4]] >> }

---------------------------------------------------------------------------
(* process_and_reroot_lineages, one action per statement. *)

\* create_barcodes_from_lineage_paths is not running
BarcodeIdle ==
    /\ rows = <<>>
    /\ prefix = <<>>
    /\ df = <<>>
    /\ df_barcodes = NoFrame
    /\ before = NoFrame
    /\ seq_muts = <<>>
    /\ k = 0
    /\ file = NoFrame
    /\ outcome = "running"
    /\ flip_error = FALSE

\* lines 132-134: the three inputs are read; nothing is computed or written
InitReroot ==
    /\ pc = "rr_load"
    /\ \/ /\ sample_muts_df \in SampleTables
          /\ seqs = [id \in {} |-> <<>>]
          /\ ref_seq = <<"A", "C">>
       \/ /\ sample_muts_df \in InferTables
          /\ seqs \in SeqSets
          /\ ref_seq \in RefSeqs
    /\ muts = <<>>
    /\ additional_muts = <<>>
    /\ it = 0
    /\ root_seqs = <<>>
    /\ skipped = <<>>
    /\ root = <<>>
    /\ lineage_input = <<>>
    /\ lineage_paths_df = <<>>
    /\ additional_muts_file = NoFile
    /\ rerooted_file = NoFile
    /\ CliIdle
    /\ BarcodeIdle

\* line 137: the reference is a sample of the mutation table
SelectMode ==
    /\ pc = "rr_load"
    /\ pc' = IF ref_rows(sample_muts_df) # {} THEN "rr_extract"
             ELSE IF valid(sample_muts_df) = <<>> THEN "rr_collected"
             ELSE "rr_infer"
    /\ UNCHANGED <<cli_vars, barcode_vars, reroot_vars>>

\* lines 142-144: _extract_mutations of the first row of the reference
ExtractMutations ==
    /\ pc = "rr_extract"
    /\ muts' = extract_mutations(first_ref_row(sample_muts_df).mutations)
    /\ pc' = "rr_reverse"
    /\ UNCHANGED <<cli_vars, barcode_vars, sample_muts_df, additional_muts, infer_vars, path_vars>>

\* line 141: _reverse_mutations_to_root
ReverseMutationsToRoot ==
    /\ pc = "rr_reverse"
    /\ additional_muts' = reverse_mutations_to_root(muts)
    /\ pc' = "rr_relabel"
    /\ UNCHANGED <<cli_vars, barcode_vars, sample_muts_df, muts, infer_vars, path_vars>>

\* lines 147-149
Relabel ==
    /\ pc = "rr_relabel"
    /\ additional_muts' = relabel(additional_muts)
    /\ pc' = "rr_sanitize"
    /\ UNCHANGED <<cli_vars, barcode_vars, sample_muts_df, muts, infer_vars, path_vars>>

\* line 188
Sanitize ==
    /\ pc = "rr_sanitize"
    /\ additional_muts' = sanitize_mutation_data(additional_muts)
    /\ pc' = "rr_save"
    /\ UNCHANGED <<cli_vars, barcode_vars, sample_muts_df, muts, infer_vars, path_vars>>

\* one turn of the loop of lines 166-178 over the rows of 'valid': a sample
\* without sequence record is warned about and ends the loop (break)
ProcessSample ==
    /\ pc = "rr_infer"
    /\ it < Len(valid(sample_muts_df))
    /\ LET row       == valid(sample_muts_df)[it + 1]
           root_muts == reverse_mutations_to_root(extract_mutations(row.mutations))
       IN  IF row.sample \notin DOMAIN seqs
           THEN /\ skipped' = Append(skipped, row.sample)
                /\ pc' = "rr_collected"
                /\ UNCHANGED <<seqs, root_seqs, it>>
           ELSE /\ seqs' = [seqs EXCEPT ![row.sample] = construct_root_sequence(root_muts, @)]
                /\ root_seqs' = Append(root_seqs, row.sample)
                /\ it' = it + 1
                /\ pc' = IF it + 1 = Len(valid(sample_muts_df)) THEN "rr_collected"
                         ELSE "rr_infer"
                /\ UNCHANGED skipped
    /\ UNCHANGED <<cli_vars, barcode_vars, sample_muts_df, muts, additional_muts, ref_seq, root, path_vars>>

\* lines 180-183: no root sequence, ValueError('No valid root sequences ...')
CheckRootSeqs ==
    /\ pc = "rr_collected"
    /\ pc' = IF root_seqs = <<>> THEN "rr_raised_no_root" ELSE "rr_derive"
    /\ UNCHANGED <<cli_vars, barcode_vars, reroot_vars>>

\* line 185: root = _derive_root_sequence(root_seqs)
DeriveRootSequence ==
    /\ pc = "rr_derive"
    /\ LET cands == candidates(root_seqs, seqs)
       IN  IF derive_index_error(cands)
           THEN pc' = "rr_raised_index" /\ root' = root
           ELSE IF derive_value_error(cands)
           THEN pc' = "rr_raised_max" /\ root' = root
           ELSE pc' = "rr_compare" /\ root' \in derive_root_sequence(cands)
    /\ UNCHANGED <<cli_vars, barcode_vars, sample_muts_df, muts, additional_muts, seqs, ref_seq, it,
                   root_seqs, skipped, path_vars>>

\* line 186: additional_muts = _compare_sequences(ref, root)
CompareSequences ==
    /\ pc = "rr_compare"
    /\ additional_muts' = compare_sequences(ref_seq, root)
    /\ pc' = "rr_sanitize"
    /\ UNCHANGED <<cli_vars, barcode_vars, sample_muts_df, muts, infer_vars, path_vars>>

\* lines 190-191: the additional mutations are written
WriteAdditionalMuts ==
    /\ pc = "rr_save"
    /\ additional_muts_file' = FileOf(additional_muts)
    /\ pc' = "rr_paths"
    /\ UNCHANGED <<cli_vars, barcode_vars, sample_muts_df, muts, additional_muts, infer_vars,
                   lineage_input, lineage_paths_df, rerooted_file>>

\* lines 196-198: the lineage path table is read and parsed
ReadLineagePaths ==
    /\ pc = "rr_paths"
    /\ \E t \in LineagePathTables :
          /\ lineage_input' = t
          /\ lineage_paths_df' = ref_parse_tree_paths(t)
    /\ pc' = "rr_update"
    /\ UNCHANGED <<cli_vars, barcode_vars, sample_muts_df, muts, additional_muts, infer_vars,
                   additional_muts_file, rerooted_file>>

\* lines 200-237: the additional mutations are put into every path
UpdatePaths ==
    /\ pc = "rr_update"
    /\ lineage_paths_df' = rewrite_paths(lineage_paths_df, additional_muts_list(additional_muts))
    /\ pc' = "rr_write"
    /\ UNCHANGED <<cli_vars, barcode_vars, sample_muts_df, muts, additional_muts, infer_vars,
                   lineage_input, additional_muts_file, rerooted_file>>

\* line 239: the rerooted lineage paths are written
WriteRerooted ==
    /\ pc = "rr_write"
    /\ rerooted_file' = FileOf(lineage_paths_df)
    /\ pc' = "rr_done"
    /\ UNCHANGED <<cli_vars, barcode_vars, sample_muts_df, muts, additional_muts, infer_vars,
                   lineage_input, lineage_paths_df, additional_muts_file>>

NextReroot ==
    \/ SelectMode
    \/ ExtractMutations
    \/ ReverseMutationsToRoot
    \/ Relabel
    \/ Sanitize
    \/ ProcessSample
    \/ CheckRootSeqs
    \/ DeriveRootSequence
    \/ CompareSequences
    \/ WriteAdditionalMuts
    \/ ReadLineagePaths
    \/ UpdatePaths
    \/ WriteRerooted

SpecReroot == InitReroot /\ [][NextReroot]_vars

---------------------------------------------------------------------------
(* Claims about the direct mode. *)

\* the mutations of a path string in root-to-tip order: the steps are the
\* pieces between separators, a step's mutations follow its ':'
RECURSIVE step_mutations(_)
step_mutations(pieces) ==
    IF pieces = <<>> THEN <<>>
    ELSE (IF Contains(Head(pieces), ":")
          THEN Split(Split(Head(pieces), ":")[2], ",")
          ELSE <<>>)
         \o step_mutations(Tail(pieces))

RefPathMutations ==
    step_mutations(Split(ReplaceChar(first_ref_row(sample_muts_df).mutations, " ", ">"), ">"))

\* the mutations of the reference's path at position p, root first
MutationsAt(p) ==
    LET ts == RefPathMutations
    IN  [n \in 1..Len(FilterSeq([i \in 1..Len(ts) |-> i],
                                {i \in 1..Len(ts) : ToInt(Middle(ts[i])) = p})) |->
            ts[FilterSeq([i \in 1..Len(ts) |-> i],
                         {i \in 1..Len(ts) : ToInt(Middle(ts[i])) = p})[n]]]

MutatedPositions == {ToInt(Middle(t)) : t \in Range(RefPathMutations)}

\* C10 (as claimed): in direct mode the additional mutations have, for every
\* position p mutated in the reference sample's path, ref = the mutant base of
\* the tip-most mutation at p and root = the reference base of the root-most
\* mutation at p, and they have no entry for any other position.
C10_DirectModeEndBases ==
    (pc = "rr_sanitize" /\ ref_rows(sample_muts_df) # {} /\ RefPathMutations # <<>>) =>
        /\ \A p \in MutatedPositions :
              \E n \in 1..Len(additional_muts) :
                  /\ additional_muts[n].pos = p
                  /\ additional_muts[n].ref = <<LastOf(LastOf(MutationsAt(p)))>>
                  /\ additional_muts[n].root = <<MutationsAt(p)[1][1]>>
        /\ \A n \in 1..Len(additional_muts) : additional_muts[n].pos \in MutatedPositions

---------------------------------------------------------------------------
(* Claims about the inference mode. *)

\* the sample ids of the rows of t that have a mutation string, in table order
ValidSamples(t) ==
    LET v == FilterSeq(t, {r \in Range(t) : r.mutations # <<>>})
    IN  [n \in 1..Len(v) |-> v[n].sample]

\* C11 (as claimed): when the loop over the samples has ended, every sample
\* with a mutation string and a sequence record has contributed one candidate,
\* wherever it stands in the table, and every sample with a mutation string
\* and no sequence record, and no other, has been warned about and skipped.
C11_SkipsOnlyMissing ==
    pc = "rr_collected" =>
        /\ root_seqs = FilterSeq(ValidSamples(sample_muts_df), DOMAIN seqs)
        /\ skipped = FilterSeq(ValidSamples(sample_muts_df),
                               Range(ValidSamples(sample_muts_df)) \ DOMAIN seqs)

\* the reference is not a sample of the mutation table
InferenceMode == \A i \in 1..Len(sample_muts_df) : sample_muts_df[i].sample # RefId

\* no sample of the table has both a mutation string and a sequence record
NoOverlap ==
    \A i \in 1..Len(sample_muts_df) :
        sample_muts_df[i].mutations = <<>> \/ sample_muts_df[i].sample \notin DOMAIN seqs

\* C12: in inference mode without a sample that has both a mutation string
\* and a sequence record, the call never gets beyond the test of root_seqs,
\* which finds the list empty and raises 'No valid root sequences could be
\* generated'; neither output file is ever written.
C12_NoOverlapRaises ==
    (InferenceMode /\ NoOverlap) =>
        /\ pc \in {"rr_load", "rr_infer", "rr_collected", "rr_raised_no_root"}
        /\ root_seqs = <<>>
        /\ ~additional_muts_file.written
        /\ ~rerooted_file.written

\* C12 witness: the error was raised on a table whose samples have mutation
\* strings and no sequence record, after the first of them was skipped
C12_Witness ==
    /\ pc = "rr_raised_no_root"
    /\ Len(sample_muts_df) >= 2
    /\ \A i \in 1..Len(sample_muts_df) : sample_muts_df[i].mutations # <<>>
    /\ skipped # <<>>
    /\ DOMAIN seqs # {}
    /\ ~additional_muts_file.written
    /\ ~rerooted_file.written

---------------------------------------------------------------------------
(* _derive_root_sequence on lists of candidate root sequences. *)

\* bases of the candidates: upper and lower case, N, two ambiguity codes
ConsensusAlphabet == {"A", "C", "a", "N", "R", "Y"}

\* the lists of n candidates of length len, for n * len <= MaxBases
ConsensusLists ==
    UNION {[1..sh[1] -> [1..sh[2] -> ConsensusAlphabet]] :
           sh \in {x \in (1..MaxCandidates) \X (1..MaxSeqLen) : x[1] * x[2] <= MaxBases}}

\* the id of the n-th candidate record
CandidateId(n) == <<"s", DigitChar(n)>>

\* the state in which line 185 calls _derive_root_sequence(root_seqs)
InitConsensus ==
    /\ pc = "rr_derive"
    /\ \E cands \in ConsensusLists :
          /\ root_seqs = [n \in 1..Len(cands) |-> CandidateId(n)]
          /\ seqs = [id \in {CandidateId(n) : n \in 1..Len(cands)} |->
                        cands[CHOOSE n \in 1..Len(cands) : CandidateId(n) = id]]
    /\ ref_seq = <<"A", "C">>
    /\ sample_muts_df = <<>>
    /\ muts = <<>>
    /\ additional_muts = <<>>
    /\ it = 0
    /\ skipped = <<>>
    /\ root = <<>>
    /\ lineage_input = <<>>
    /\ lineage_paths_df = <<>>
    /\ additional_muts_file = NoFile
    /\ rerooted_file = NoFile
    /\ CliIdle
    /\ BarcodeIdle

NextConsensus ==
    \/ DeriveRootSequence
    \/ CompareSequences

SpecConsensus == InitConsensus /\ [][NextConsensus]_vars

\* the bases of the candidates at position i, in candidate order
Column(i) == [n \in 1..Len(root_seqs) |-> seqs[root_seqs[n]][i]]

\* the number of candidates with base x at position i
Occurrences(i, x) == Cardinality({n \in 1..Len(root_seqs) : Column(i)[n] = x})

\* A, T, C, G, N in either case
Standard == {"A", "T", "C", "G", "N", "a", "t", "c", "g", "n"}

Unanimous(i) == \A n, m \in 1..Len(root_seqs) : Column(i)[n] = Column(i)[m]

FirstMaximal(i) ==
    LET best == {n \in 1..Len(root_seqs) :
                    /\ Column(i)[n] \in Standard
                    /\ \A y \in Standard : Occurrences(i, y) <= Occurrences(i, Column(i)[n])}
    IN  Column(i)[CHOOSE n \in best : \A m \in best : n <= m]

\* C14 (as claimed): where several bases tie for the maximal count, the
\* consensus is the tied base that occurs first in candidate order.
C14_TieBreakFirst ==
    pc = "rr_compare" =>
        \A i \in 1..Len(root) : ~Unanimous(i) => root[i] = FirstMaximal(i)

---------------------------------------------------------------------------
(* Claims about the additional mutations and the rerooted paths. *)

\* the non-empty '>'-delimited steps of a path string, blanks removed
NonEmptySteps(x) ==
    LET st == Split(RemoveChar(x, " "), ">")
    IN  FilterSeq(st, Range(st) \ {<<>>})

\* the step that holds the additional mutations: ref + position + root of
\* each, joined by ','
AdditionalStep ==
    Join([n \in 1..Len(additional_muts) |->
             additional_muts[n].ref \o ToStr(additional_muts[n].pos) \o additional_muts[n].root],
         <<",">>)

\* the path string is '>'-delimited: no step has a blank inside
GTDelimited(x) == \A st \in Range(Split(x, ">")) : ~Contains(Strip(st, " "), " ")

\* C15 (as claimed): with a non-empty additional-mutation set the steps of
\* every rerooted path are the first step of the original path, then the
\* step of the additional mutations, then the remaining original steps in
\* their order (empty steps are not counted).
C15_NewStepAfterFirst ==
    (pc = "rr_done" /\ additional_muts # <<>>) =>
        /\ Len(rerooted_file.content) = Len(lineage_input)
        /\ \A n \in 1..Len(lineage_input) :
              LET orig == NonEmptySteps(lineage_input[n].from_tree_root)
              IN  GTDelimited(lineage_input[n].from_tree_root) =>
                      /\ rerooted_file.content[n].clade = lineage_input[n].clade
                      /\ NonEmptySteps(rerooted_file.content[n].from_tree_root)
                           = IF orig = <<>> THEN <<AdditionalStep>>
                             ELSE <<orig[1], AdditionalStep>> \o Tail(orig)

\* the additional mutations as derived, before _sanitize_mutation_data
Derived ==
    IF InferenceMode THEN compare_sequences(ref_seq, root)
    ELSE relabel(reverse_mutations_to_root(muts))

HasGap(e) == Contains(e.ref, "-") \/ Contains(e.root, "-")

IsSubstring(t, x) == \E a \in 0..(Len(x) - Len(t)) : SubSeq(x, a + 1, a + Len(t)) = t

Sanitized == pc \in {"rr_save", "rr_paths", "rr_update", "rr_write", "rr_done"}

\* C16: in both modes, after _sanitize_mutation_data the additional mutations
\* are the derived entries without those that have the gap '-' as ref or root
\* and without those with ref = root, every other entry unchanged and in
\* place; the additional-mutations file holds exactly these entries, and the
\* step put into the lineage paths is made of exactly these entries.
C16_SanitizedAdditionalMuts ==
    Sanitized =>
        /\ \A n \in 1..Len(additional_muts) :
              ~HasGap(additional_muts[n]) /\ additional_muts[n].ref # additional_muts[n].root
        /\ additional_muts
             = FilterSeq(Derived, {e \in Range(Derived) : ~HasGap(e) /\ e.ref # e.root})
        /\ additional_muts_file.written => additional_muts_file.content = additional_muts
        /\ (rerooted_file.written /\ additional_muts # <<>>) =>
              \A n \in 1..Len(rerooted_file.content) :
                  /\ IsSubstring(AdditionalStep, rerooted_file.content[n].from_tree_root)
                  /\ ~Contains(rerooted_file.content[n].from_tree_root, "-")

\* C16 witness: in inference mode an entry with a gap was dropped and another
\* entry was kept, written and put into the paths
C16_Witness ==
    /\ pc = "rr_done"
    /\ InferenceMode
    /\ \E e \in Range(Derived) : HasGap(e)
    /\ additional_muts # <<>>
    /\ additional_muts_file.content = additional_muts
    /\ \A n \in 1..Len(rerooted_file.content) :
          IsSubstring(AdditionalStep, rerooted_file.content[n].from_tree_root)

\* in direct mode an entry with ref = root was dropped and another was kept
C16_DirectWitness ==
    /\ pc = "rr_done"
    /\ ~InferenceMode
    /\ \E e \in Range(Derived) : e.ref = e.root
    /\ additional_muts # <<>>

---------------------------------------------------------------------------
(* Further claims about the barcode pipeline. *)

\* C21: reversion_checking is idempotent: applied to the matrix it has just
\* returned for a matrix of natural numbers, it changes neither the columns
\* nor any cell.
C21_ReversionIdempotent ==
    (AfterReversion /\ NonNegative(before)) =>
        /\ ColSet(reversion_checking(df_barcodes)) = ColSet(df_barcodes)
        /\ reversion_checking(df_barcodes) = df_barcodes

\* C21 witness: the first call has netted two flip pairs at different
\* positions, dropped a column and left a nonzero column of a pair
C21_Witness ==
    /\ AfterReversion
    /\ NonNegative(before)
    /\ \E d, e \in ColSet(before) :
          /\ site(d) # site(e)
          /\ flip(d) \in ColSet(before) /\ flip(d) # d
          /\ flip(e) \in ColSet(before) /\ flip(e) # e
          /\ d \in ColSet(df_barcodes) /\ flip(d) \notin ColSet(df_barcodes)
          /\ \E i \in 1..NRows(before) : before.val[i][d] > Cell(df_barcodes, i, d)
          /\ \E i \in 1..NRows(before) : before.val[i][e] > Cell(df_barcodes, i, e)
    /\ reversion_checking(df_barcodes) = df_barcodes

\* the matrix identify_chains has just been called on, with its result in
\* seq_muts
AfterIdentify == pc = "write" \/ (pc = "combine" /\ k = 0)

\* the confirmed chain candidates of the matrix, as pairs of column numbers
Confirmed ==
    {ij \in (1..Len(df_barcodes.columns)) \X (1..Len(df_barcodes.columns)) :
        ChainPair(df_barcodes, df_barcodes.columns[ij[1]], df_barcodes.columns[ij[2]])}

\* the genomic position of a token
Position(d) == ToInt(Middle(d))

\* ij comes before every other confirmed candidate at its position when the
\* columns are walked for a and, inside, for b
FirstAtPosition(ij) ==
    \A o \in Confirmed :
        Position(df_barcodes.columns[o[1]]) = Position(df_barcodes.columns[ij[1]]) =>
            \/ ij[1] < o[1]
            \/ ij[1] = o[1] /\ ij[2] <= o[2]

TripleOf(ij) ==
    LET a == df_barcodes.columns[ij[1]]
        b == df_barcodes.columns[ij[2]]
    IN  <<a, b, <<a[1]>> \o Middle(a) \o <<LastOf(b)>> >>

\* C24: identify_chains returns exactly one triple for each position with a
\* confirmed candidate, the first one at that position in column order, and
\* no other triple; in every triple (a, b, c) a and b are at the same
\* position, a's mutant base is b's reference base, b is not a's flip
\* partner, c is a's reference base + position + b's mutant base, and a
\* lineage has nonzero counts in both a and b.
C24_OneChainPerPosition ==
    AfterIdentify =>
        /\ \A ij \in Confirmed :
              FirstAtPosition(ij) =>
                  Cardinality({n \in 1..Len(seq_muts) : seq_muts[n] = TripleOf(ij)}) = 1
        /\ \A n \in 1..Len(seq_muts) :
              \E ij \in Confirmed : FirstAtPosition(ij) /\ seq_muts[n] = TripleOf(ij)
        /\ \A n, o \in 1..Len(seq_muts) :
              Position(seq_muts[n][3]) = Position(seq_muts[o][3]) => n = o
        /\ \A n \in 1..Len(seq_muts) :
              LET a == seq_muts[n][1]
                  b == seq_muts[n][2]
                  c == seq_muts[n][3]
              IN  /\ a \in ColSet(df_barcodes) /\ b \in ColSet(df_barcodes)
                  /\ Middle(a) = Middle(b)
                  /\ LastOf(a) = b[1]
                  /\ b # flip(a)
                  /\ c = <<a[1]>> \o Middle(a) \o <<LastOf(b)>>
                  /\ \E i \in 1..NRows(df_barcodes) :
                        df_barcodes.val[i][a] # 0 /\ df_barcodes.val[i][b] # 0

\* C24 witness: two positions have confirmed candidates, one of them several,
\* and one triple per position was returned
C24_Witness ==
    /\ pc = "combine"
    /\ k = 0
    /\ Len(seq_muts) = 2
    /\ \E ij, o \in Confirmed :
          /\ ij # o
          /\ Position(df_barcodes.columns[o[1]]) = Position(df_barcodes.columns[ij[1]])
          /\ FirstAtPosition(ij)
          /\ \E n \in 1..2 : seq_muts[n] = TripleOf(ij)
          /\ \A n \in 1..2 : seq_muts[n] # TripleOf(o)

\* the matrix exists: convert_to_barcodes has returned and the matrix is not
\* yet prepared for writing
InMatrixStages ==
    pc \in {"prefix", "reversion", "chains", "combine", "drop", "loop_reversion",
            "loop_identify", "write"}

\* C26: from convert_to_barcodes on, every matrix reached by
\* reversion_checking and by check_mutation_chain (after each single chain
\* combination, each column drop and each reversion step) has natural
\* numbers as cells.
C26_CountsNonNegative ==
    InMatrixStages =>
        \A i \in 1..NRows(df_barcodes) : \A c \in ColSet(df_barcodes) :
            df_barcodes.val[i][c] \in Nat

\* C26 witness: a chain was combined in one lineage and a constituent, now 0
\* there, is kept as a column by another lineage
C26_Witness ==
    /\ pc = "loop_reversion"
    /\ \E n \in 1..Len(seq_muts) : \E i, j \in 1..NRows(df_barcodes) :
          /\ seq_muts[n][1] \in ColSet(df_barcodes)
          /\ seq_muts[n][3] \in ColSet(df_barcodes)
          /\ df_barcodes.val[i][seq_muts[n][1]] = 0
          /\ df_barcodes.val[i][seq_muts[n][3]] >= 1
          /\ df_barcodes.val[j][seq_muts[n][1]] >= 1

\* a token whose reference base equals its mutant base
NoOp(d) == Len(d) >= 3 /\ d[1] = LastOf(d)

\* reversion_checking has returned at least once and the run has not failed
ReversionReturned ==
    /\ pc \in {"chains", "combine", "drop", "loop_reversion", "loop_identify",
               "write", "check", "done"}
    /\ outcome # "raised"

C27_ThereAndBackWitness ==
    /\ pc = "write"
    /\ \E d \in AllTokens : \E i \in 1..Len(df) :
          /\ Len(d) >= 3
          /\ ~NoOp(d)
          /\ Cell(convert_to_barcodes(df), i, d) = 1
          /\ Cell(convert_to_barcodes(df), i, flip(d)) = 1
          /\ d \notin ColSet(df_barcodes)
          /\ flip(d) \notin ColSet(df_barcodes)

\* C28 (as claimed): every clade id of the input table labels a row of the
\* result of parse_tree_paths, with the parsed path of one of its own input
\* rows; two clades with equal (or both missing) from_tree_root both remain.
C28_NoCladeLost ==
    pc = "convert" =>
        \A i \in 1..Len(rows) :
            \E n \in 1..Len(df) :
                /\ df[n].clade = rows[i].clade
                /\ \E j \in RowsOf(rows[i].clade) :
                      df[n].from_tree_root = parse_path(rows[j].from_tree_root)

\* the matrix the three stages return for lineage n of the parsed table as
\* the only lineage
Alone(n) == check_mutation_chain(reversion_checking(convert_to_barcodes(<<df[n]>>)))

\* C29: after convert_to_barcodes, reversion_checking and
\* check_mutation_chain the nonzero entries of a lineage's row are those the
\* same stages give for the table that holds this lineage alone, so they are
\* the same in any two tables that give the lineage the same path.
C29_LineagesIndependent ==
    pc = "write" =>
        \A n \in 1..Len(df) :
            \A c \in ColSet(df_barcodes) \cup ColSet(Alone(n)) :
                Cell(df_barcodes, n, c) = Cell(Alone(n), 1, c)

---------------------------------------------------------------------------
(* Further claims about process_and_reroot_lineages. *)

\* C22: when the sanitized additional mutations are empty, the rerooted
\* lineage path table has the rows of the input lineage path table in the
\* same order, each with the same clade and the same from_tree_root.
C22_EmptyLeavesPaths ==
    (pc = "rr_done" /\ additional_muts = <<>>) =>
        /\ rerooted_file.written
        /\ Len(rerooted_file.content) = Len(lineage_input)
        /\ \A n \in 1..Len(lineage_input) :
              /\ rerooted_file.content[n].clade = lineage_input[n].clade
              /\ rerooted_file.content[n].from_tree_root = lineage_input[n].from_tree_root

\* C22 witness: mutations were derived but none survived the sanitizing, and
\* a path of several steps with blanks was written back
C22_Witness ==
    /\ pc = "rr_done"
    /\ Derived # <<>>
    /\ additional_muts = <<>>
    /\ \E n \in 1..Len(lineage_input) :
          /\ Len(lineage_paths_df[n].from_tree_root) > 1
          /\ Contains(lineage_input[n].from_tree_root, " ")
          /\ Contains(lineage_input[n].from_tree_root, ">")
          /\ rerooted_file.content[n].from_tree_root = lineage_input[n].from_tree_root

\* the same with an empty path in the table
C22_EmptyPathWitness ==
    /\ pc = "rr_done"
    /\ additional_muts = <<>>
    /\ \E n \in 1..Len(lineage_input) :
          /\ lineage_input[n].from_tree_root = <<>>
          /\ rerooted_file.content[n].from_tree_root = <<>>

\* C30 (as claimed): for every non-empty list of candidates of equal length
\* _derive_root_sequence returns, without error, a string with one base per
\* position, also where the candidates carry different bases outside
\* A, T, C, G, N.
C30_ConsensusDefined ==
    pc # "rr_derive" =>
        /\ pc \notin {"rr_raised_max", "rr_raised_index"}
        /\ Len(root) = Len(seqs[root_seqs[1]])

\* the mutations of a sample's path string, root first
PathMutations(x) == step_mutations(Split(ReplaceChar(x, " ", ">"), ">"))

\* the reference base of the root-most mutation of the path at position p
RootBase(x, p) ==
    LET ts == PathMutations(x)
        i  == CHOOSE a \in 1..Len(ts) :
                  /\ ToInt(Middle(ts[a])) = p
                  /\ \A b \in 1..(a - 1) : ToInt(Middle(ts[b])) # p
    IN  ts[i][1]

\* the mutation string of a sample of the table
MutationString(id) ==
    sample_muts_df[CHOOSE i \in 1..Len(sample_muts_df) : sample_muts_df[i].sample = id].mutations

\* C25 (as claimed): the candidate root sequence of every sample that the
\* inference mode has processed is the sample's sequence with, at every
\* position mutated in the sample's path, the reference base of the root-most
\* mutation at that position; every other position is unchanged and the
\* length is the same.
C25_CandidateIsRootedSequence ==
    \A n \in 1..Len(root_seqs) :
        LET id   == root_seqs[n]
            x    == MutationString(id)
            orig == SampleSeq(id)
            cand == seqs[id]
        IN  /\ Len(cand) = Len(orig)
            /\ \A p \in 1..Len(orig) :
                  cand[p] = IF \E t \in Range(PathMutations(x)) : ToInt(Middle(t)) = p
                            THEN RootBase(x, p)
                            ELSE orig[p]

---------------------------------------------------------------------------
(* The barcode command of cli.py, one action per stage.  What the external  *)
(* programs do is not modelled: a call ends in one of CommandResults, and   *)
(* the files the later stages read are drawn from the tables above.         *)

\* how a child process can end: exit status 0, a non-zero exit status
\* (CalledProcessError), no such binary (FileNotFoundError)
CommandResults == {"ok", "nonzero", "not_found"}

\* how a call of a function of this package can end
CallResults == {"ok", "raised"}

\* a variant of run_subprocess_command that reports a failure and returns
\* (C23 depends on the failure being raised as click.Abort)
run_subprocess_command_lenient(result) == "returned"

\* run_subprocess_command: subprocess.run(cmd, check=True, ...) is called
\* once; both exceptions are answered with click.Abort
run_subprocess_command(result) == IF result = "ok" THEN "returned" ELSE "aborted"

\* resolve_tree_format: the option when given, else by the file extension;
\* click.Abort for an extension that is not known
resolve_tree_format(ext, specified) ==
    IF specified # "" THEN specified
    ELSE IF ext \in {".nwk", ".newick"} THEN "newick"
    ELSE IF ext = ".nexus" THEN "nexus"
    ELSE "aborted"

TreeExtensions == {".nwk", ".nexus", ".txt"}

TreeFormats == {"", "newick", "nexus"}

\* additional mutations that process_and_reroot_lineages may find
CliAdditionalMuts == { <<>>, <<[pos |-> 1, ref |-> <<"T">>, root |-> <<"A">>]>> }

\* the lineage path tables matUtils extract may write
CliLineageTables ==
    { << [clade |-> <<"A">>, from_tree_root |-> LineagePaths[1]],
         [clade |-> <<"B">>, from_tree_root |-> LineagePaths[2]] >>,
      << [clade |-> <<"A">>, from_tree_root |-> LineagePaths[4]] >>,
      << [clade |-> <<"A">>, from_tree_root |-> A5G \o GT \o <<"A", "5", "A">>] >> }

\* create_barcodes_from_lineage_paths as a whole: the written frame, or
\* NoFrame when the call raises (a clade on several rows; a column that is
\* its own flip may raise, see ReversionCheckingRaises)
barcode_files(t, p) ==
    LET d == parse_tree_paths(t)
        m == add_prefix(convert_to_barcodes(d), p)
    IN  IF ~unique_index(d) THEN {NoFrame}
        ELSE {written_frame(check_mutation_chain(reversion_checking(m)))}
             \cup (IF \E c \in ColSet(m) : flip(c) = c THEN {NoFrame} ELSE {})

InitCli ==
    /\ pc = "cli_resolve"
    /\ started = <<>>
    /\ results = <<>>
    /\ tree_ext \in TreeExtensions
    /\ tree_format \in TreeFormats
    /\ resolved_tree_format = ""
    /\ prefix \in Prefixes
    /\ rows = <<>>
    /\ df = <<>>
    /\ df_barcodes = NoFrame
    /\ before = NoFrame
    /\ seq_muts = <<>>
    /\ k = 0
    /\ file = NoFrame
    /\ outcome = "running"
    /\ flip_error = FALSE
    /\ sample_muts_df = <<>>
    /\ muts = <<>>
    /\ additional_muts = <<>>
    /\ seqs = <<>>
    /\ ref_seq = <<>>
    /\ it = 0
    /\ root_seqs = <<>>
    /\ skipped = <<>>
    /\ root = <<>>
    /\ lineage_input = <<>>
    /\ lineage_paths_df = <<>>
    /\ additional_muts_file = NoFile
    /\ rerooted_file = NoFile

\* line 97: resolve_tree_format, then the working directory is made
ResolveTreeFormat ==
    /\ pc = "cli_resolve"
    /\ resolved_tree_format' = resolve_tree_format(tree_ext, tree_format)
    /\ pc' = IF resolved_tree_format' = "aborted" THEN "cli_aborted" ELSE "cli_faToVcf"
    /\ UNCHANGED <<started, results, tree_ext, tree_format, barcode_vars, reroot_vars>>

\* a call of run_subprocess_command for the stage at pc = at
ExternalStage(at, name, next) ==
    /\ pc = at
    /\ \E result \in CommandResults :
          /\ started' = Append(started, name)
          /\ results' = Append(results, result)
          /\ pc' = IF run_subprocess_command(result) = "returned" THEN next
                   ELSE "cli_aborted"
    /\ UNCHANGED <<tree_ext, tree_format, resolved_tree_format, barcode_vars, reroot_vars>>

\* lines 104-112
FaToVcf == ExternalStage("cli_faToVcf", "faToVcf", "cli_convert_tree")

\* lines 117-146: convert_nexus_to_newick for both formats; its errors and
\* the ValueError of line 144 are not caught
ConvertTree ==
    /\ pc = "cli_convert_tree"
    /\ \E result \in CallResults :
          /\ resolved_tree_format \notin {"nexus", "newick"} => result = "raised"
          /\ started' = Append(started, "tree conversion")
          /\ results' = Append(results, result)
          /\ pc' = IF result = "ok" THEN "cli_usher" ELSE "cli_raised"
    /\ UNCHANGED <<tree_ext, tree_format, resolved_tree_format, barcode_vars, reroot_vars>>

\* lines 149-171
Usher == ExternalStage("cli_usher", "usher", "cli_annotate")

\* lines 174-200
MatUtilsAnnotate == ExternalStage("cli_annotate", "matUtils annotate", "cli_extract")

\* lines 203-228
MatUtilsExtract == ExternalStage("cli_extract", "matUtils extract", "cli_reroot")

\* lines 230-241: process_and_reroot_lineages on the files of matUtils
\* extract; it raises, or writes both of its files
ProcessAndRerootLineages ==
    /\ pc = "cli_reroot"
    /\ started' = Append(started, "process_and_reroot_lineages")
    /\ \/ /\ results' = Append(results, "raised")
          /\ pc' = "cli_raised"
          /\ UNCHANGED <<additional_muts, lineage_input, lineage_paths_df,
                         additional_muts_file, rerooted_file>>
       \/ \E t \in CliLineageTables : \E am \in CliAdditionalMuts :
             /\ results' = Append(results, "ok")
             /\ additional_muts' = am
             /\ additional_muts_file' = FileOf(am)
             /\ lineage_input' = t
             /\ lineage_paths_df' = rewrite_paths(ref_parse_tree_paths(t),
                                                  additional_muts_list(am))
             /\ rerooted_file' = FileOf(lineage_paths_df')
             /\ pc' = "cli_barcodes"
    /\ UNCHANGED <<tree_ext, tree_format, resolved_tree_format, barcode_vars,
                   sample_muts_df, muts, infer_vars>>

\* lines 244-263: clean_prefix = prefix.strip(), then
\* create_barcodes_from_lineage_paths on the rerooted lineage paths
CreateBarcodes ==
    /\ pc = "cli_barcodes"
    /\ started' = Append(started, "create_barcodes_from_lineage_paths")
    /\ rows' = rerooted_file.content
    /\ \E f \in barcode_files(rows', Strip(prefix, " ")) :
          /\ file' = f
          /\ results' = Append(results, IF f = NoFrame THEN "raised" ELSE "ok")
          /\ pc' = IF f = NoFrame THEN "cli_raised" ELSE "cli_plot"
    /\ UNCHANGED <<tree_ext, tree_format, resolved_tree_format, prefix, df, df_barcodes,
                   before, seq_muts, k, outcome, flip_error, reroot_vars>>

\* lines 264-267: create_barcode_plot on the barcode file
CreateBarcodePlot ==
    /\ pc = "cli_plot"
    /\ \E result \in CallResults :
          /\ started' = Append(started, "create_barcode_plot")
          /\ results' = Append(results, result)
          /\ pc' = IF result = "ok" THEN "cli_finished" ELSE "cli_raised"
    /\ UNCHANGED <<tree_ext, tree_format, resolved_tree_format, barcode_vars, reroot_vars>>

NextCli ==
    \/ ResolveTreeFormat
    \/ FaToVcf
    \/ ConvertTree
    \/ Usher
    \/ MatUtilsAnnotate
    \/ MatUtilsExtract
    \/ ProcessAndRerootLineages
    \/ CreateBarcodes
    \/ CreateBarcodePlot

SpecCli == InitCli /\ [][NextCli]_vars

\* the stages in the order of the claim
StageOrder ==
    << "faToVcf", "tree conversion", "usher", "matUtils annotate", "matUtils extract",
       "process_and_reroot_lineages", "create_barcodes_from_lineage_paths",
       "create_barcode_plot" >>

ExternalCommands == {"faToVcf", "usher", "matUtils annotate", "matUtils extract"}

\* C23: the stages of the barcode command are started in the fixed order
\* faToVcf, tree conversion, usher, matUtils annotate, matUtils extract,
\* process_and_reroot_lineages, create_barcodes_from_lineage_paths,
\* create_barcode_plot, each at most once (no retry) and only after all
\* earlier stages have ended well; a stage that fails is the last one
\* started, and after an external command has failed (non-zero exit or no
\* binary) the run is aborted with neither rerooting nor barcode construction
\* executed and none of their files written.
C23_StageOrder ==
    /\ Len(started) <= Len(StageOrder)
    /\ started = SubSeq(StageOrder, 1, Len(started))
    /\ Len(results) = Len(started)
    /\ \A n \in 1..Len(results) :
          results[n] # "ok" =>
              /\ n = Len(started)
              /\ pc \in {"cli_aborted", "cli_raised"}
    /\ \A n \in 1..Len(results) :
          results[n] \in {"nonzero", "not_found"} =>
              /\ started[n] \in ExternalCommands
              /\ pc = "cli_aborted"
              /\ "process_and_reroot_lineages" \notin Range(started)
              /\ "create_barcodes_from_lineage_paths" \notin Range(started)
              /\ ~rerooted_file.written
              /\ ~additional_muts_file.written
              /\ file = NoFrame
    /\ rerooted_file.written => Len(started) >= 6
    /\ file # NoFrame => Len(started) >= 7

\* C23 witness: matUtils extract failed after four stages that ended well
C23_Witness ==
    /\ pc = "cli_aborted"
    /\ started = SubSeq(StageOrder, 1, 5)
    /\ results = <<"ok", "ok", "ok", "ok", "nonzero">>
    /\ ~rerooted_file.written
    /\ file = NoFrame

\* a complete run: every stage was started once and a barcode file with a
\* prefixed lineage was written
C23_CompleteRunWitness ==
    /\ pc = "cli_finished"
    /\ started = StageOrder
    /\ \A n \in 1..Len(results) : results[n] = "ok"
    /\ rerooted_file.written
    /\ file # NoFrame
    /\ NRows(file) >= 1
    /\ file.index[1] = <<"P", "-", "A">>

===========================================================================
